---- MODULE Spec2Model ----
(***************************************************************************)
(* A model of reforge, the Blender -> Defold exporter:                     *)
(*   utils.py, materials.py, collision.py, defold_formats.py,              *)
(*   export_core.py (prototype exporter, scene compiler) and bake.py.      *)
(*                                                                         *)
(* Strings are sequences of tokens.  Names that pass through sanitize_id   *)
(* are tokenised one character per token; directory settings and fixed     *)
(* literals (".glb", "_albedo.png", ...) are single tokens.  A file is     *)
(* addressed by its project path  <<"/", dir, "/">> \o filename ; the      *)
(* absolute path is the (fixed) project root followed by the project path. *)
(* File contents are records holding exactly the values the text is        *)
(* formatted from.                                                         *)
(***************************************************************************)
EXTENDS Integers, Sequences, FiniteSets, TLC

(***************************************************************************)
(* Bounds of the model.                                                    *)
(***************************************************************************)
\* number of objects in the scene of the scene-compiler specification
MaxObjs == 3
\* number of manual edits of prototype-definition files in one behaviour
MaxEdits == 1

(***************************************************************************)
(* Generic helpers.                                                        *)
(***************************************************************************)
None == << >>
Some(v) == << v >>
IsNone(o) == o = << >>

Range(f) == { f[i] : i \in DOMAIN f }

RECURSIVE SelectSeqBy(_, _)
\* the subsequence of s of the elements that are in set keep
SelectSeqBy(s, keep) ==
    IF s = << >> THEN << >>
    ELSE IF Head(s) \in keep THEN << Head(s) >> \o SelectSeqBy(Tail(s), keep)
         ELSE SelectSeqBy(Tail(s), keep)

(***************************************************************************)
(* utils.py : characters and sanitize_id                                   *)
(***************************************************************************)
Whitespace == { " ", "\t" }
AsciiAlnum == { "a", "b", "c", "e", "o", "p", "r", "t", "x", "y", "A", "B", "M",
                "0", "1", "2", "3", "4", "5", "6", "7", "8", "9" }
\* str.isalnum() is true of every Unicode letter and digit, not only of ASCII;
\* the token "U+00E9" stands for the one character e-acute
UnicodeAlnum == { "U+00E9" }
IsAlnum(ch) == ch \in AsciiAlnum \cup UnicodeAlnum

RECURSIVE LStrip(_)
LStrip(s) == IF s # << >> /\ Head(s) \in Whitespace THEN LStrip(Tail(s)) ELSE s

RECURSIVE RStrip(_)
RStrip(s) ==
    IF s # << >> /\ s[Len(s)] \in Whitespace THEN RStrip(SubSeq(s, 1, Len(s) - 1)) ELSE s

\* str.strip()
Strip(s) == RStrip(LStrip(s))

\* str.replace(" ", "_")
ReplaceSpace(s) == [ i \in DOMAIN s |-> IF s[i] = " " THEN "_" ELSE s[i] ]

RECURSIVE KeepIdChars(_)
\* "".join(ch for ch in s if ch.isalnum() or ch in "_-")
KeepIdChars(s) ==
    IF s = << >> THEN << >>
    ELSE IF IsAlnum(Head(s)) \/ Head(s) \in { "_", "-" }
         THEN << Head(s) >> \o KeepIdChars(Tail(s))
         ELSE KeepIdChars(Tail(s))

FallbackId == << "p", "r", "o", "t", "o", "t", "y", "p", "e" >>

sanitize_id(s) ==
    LET kept == KeepIdChars(ReplaceSpace(Strip(s)))
    IN  IF kept = << >> THEN FallbackId ELSE kept

(***************************************************************************)
(* Python's order on strings (sorted(groups.keys())): by code point.       *)
(***************************************************************************)
CodeOrder == << "\t", " ", "!", "-", ".", "/", "0", "1", "2", "3", "4", "5", "6", "7",
                "8", "9", "A", "B", "M", "_", "a", "b", "c", "e", "o", "p", "r", "t",
                "x", "y", "U+00E9" >>
CharCode(ch) == CHOOSE i \in DOMAIN CodeOrder : CodeOrder[i] = ch

RECURSIVE StrLess(_, _)
StrLess(a, b) ==
    IF b = << >> THEN FALSE
    ELSE IF a = << >> THEN TRUE
    ELSE IF Head(a) = Head(b) THEN StrLess(Tail(a), Tail(b))
    ELSE CharCode(Head(a)) < CharCode(Head(b))

RECURSIVE SortedStrs(_)
\* sorted(S) for a finite set of strings
SortedStrs(S) ==
    IF S = {} THEN << >>
    ELSE LET m == CHOOSE x \in S : \A y \in S \ {x} : StrLess(x, y)
         IN  << m >> \o SortedStrs(S \ {m})

(***************************************************************************)
(* Number formatting: f"{n:03d}"                                           *)
(***************************************************************************)
DigitChars == << "0", "1", "2", "3", "4", "5", "6", "7", "8", "9" >>

RECURSIVE Decimal(_)
Decimal(n) ==
    IF n < 10 THEN << DigitChars[n + 1] >>
    ELSE Decimal(n \div 10) \o << DigitChars[(n % 10) + 1] >>

RECURSIVE PadLeft(_, _)
PadLeft(s, width) == IF Len(s) >= width THEN s ELSE PadLeft(<< "0" >> \o s, width)

Format03d(n) == PadLeft(Decimal(n), 3)
(***************************************************************************)
(* Material node graphs (the host's bpy node trees).                       *)
(*   node tree : [nodes |-> sequence of [id, type, image],                 *)
(*                links |-> set of [fn, fs, tn, ts]]                       *)
(* A link goes from output socket fs of node fn to input socket ts of node *)
(* tn.  An input socket holds at most one link, so links[0] is that link.  *)
(***************************************************************************)
NoImage == "none"

\* node.inputs, in socket order, per node type
NodeInputs(type) ==
    CASE type = "BSDF_PRINCIPLED" -> << "Base Color", "Normal" >>
      [] type = "OUTPUT_MATERIAL" -> << "Surface" >>
      [] type = "EMISSION"        -> << "Color" >>
      [] type = "TEX_IMAGE"       -> << "Vector" >>
      [] type = "MIX"             -> << "A", "B" >>
      [] type = "TEX_NOISE"       -> << "Vector" >>
      [] OTHER                    -> << >>

\* node.outputs.get("Color") or node.outputs[0]
ColorOutput(type) ==
    CASE type = "TEX_IMAGE" -> "Color"
      [] type = "RGB" -> "Color"
      [] type = "VERTEX_COLOR" -> "Color"
      [] type = "ATTRIBUTE" -> "Color"
      [] OTHER -> "Out"

NodeIds(nt) == { nt.nodes[i].id : i \in DOMAIN nt.nodes }
NodeById(nt, id) == nt.nodes[CHOOSE i \in DOMAIN nt.nodes : nt.nodes[i].id = id]

\* the first node of the given type, in nt.nodes order
FirstNodeOfType(nt, type) ==
    LET idx == { i \in DOMAIN nt.nodes : nt.nodes[i].type = type }
    IN  IF idx = {} THEN None
        ELSE Some(nt.nodes[CHOOSE i \in idx : \A j \in idx : i <= j].id)

find_output_node(nt) == FirstNodeOfType(nt, "OUTPUT_MATERIAL")
find_principled_node(nt) == FirstNodeOfType(nt, "BSDF_PRINCIPLED")

\* input_socket.links
LinksInto(nt, node, sock) == { l \in nt.links : l.tn = node /\ l.ts = sock }
IsLinked(nt, node, sock) == LinksInto(nt, node, sock) # {}

\* from_socket of the first link feeding an input socket, as <<node, socket>>
first_link_source_socket(nt, node, sock) ==
    IF IsLinked(nt, node, sock)
    THEN LET l == CHOOSE l \in LinksInto(nt, node, sock) : TRUE
         IN  Some(<< l.fn, l.fs >>)
    ELSE None

\* nodes.new(type): appended with a fresh id
FreshId(nt) == IF nt.nodes = << >> THEN 1
               ELSE 1 + (CHOOSE m \in NodeIds(nt) : \A k \in NodeIds(nt) : k <= m)
NodesNew(nt, type) ==
    [nt EXCEPT !.nodes = Append(@, [id |-> FreshId(nt), type |-> type, image |-> NoImage])]

\* nodes.remove(n): the node goes, and every link it takes part in
NodesRemove(nt, id) ==
    [nodes |-> SelectSeqBy(nt.nodes, { n \in Range(nt.nodes) : n.id # id }),
     links |-> { l \in nt.links : l.fn # id /\ l.tn # id }]

\* links.new(from_socket, to_socket): replaces what the input socket held
LinksNew(nt, from, tn, ts) ==
    [nt EXCEPT !.links = { l \in @ : ~(l.tn = tn /\ l.ts = ts) }
                           \cup { [fn |-> from[1], fs |-> from[2], tn |-> tn, ts |-> ts] }]

\* the from-nodes of the linked inputs of a node, in input order
RECURSIVE LinkedSources(_, _, _)
LinkedSources(nt, node, socks) ==
    IF socks = << >> THEN << >>
    ELSE LET src == first_link_source_socket(nt, node, Head(socks))
         IN  (IF IsNone(src) THEN << >> ELSE << src[1][1] >>)
             \o LinkedSources(nt, node, Tail(socks))

(***************************************************************************)
(* materials.py : find_basecolor_image_from_material                       *)
(***************************************************************************)
RECURSIVE WalkImageFirstInput(_, _, _, _)
\* a variant that follows the first linked input of a node only
WalkImageFirstInput(nt, stack, visited, expanded) ==
    IF stack = << >> THEN [image |-> None, expanded |-> expanded]
    ELSE LET id   == stack[Len(stack)]
             rest == SubSeq(stack, 1, Len(stack) - 1)
             node == NodeById(nt, id)
             srcs == LinkedSources(nt, id, NodeInputs(node.type))
         IN  IF id \in visited THEN WalkImageFirstInput(nt, rest, visited, expanded)
             ELSE IF node.type = "TEX_IMAGE" /\ node.image # NoImage
             THEN [image |-> Some(node.image), expanded |-> Append(expanded, id)]
             ELSE WalkImageFirstInput(nt,
                      rest \o (IF srcs = << >> THEN << >> ELSE << Head(srcs) >>),
                      visited \cup {id}, Append(expanded, id))

RECURSIVE WalkImage(_, _, _, _)
\* lines 58-74: iterative depth-first walk with a visited set.  The result is
\* [image |-> the image found or None, expanded |-> the nodes taken off the
\* stack and not skipped as visited, in order]
WalkImage(nt, stack, visited, expanded) ==
    IF stack = << >> THEN [image |-> None, expanded |-> expanded]
    ELSE LET id   == stack[Len(stack)]
             rest == SubSeq(stack, 1, Len(stack) - 1)
             node == NodeById(nt, id)
         IN  IF id \in visited THEN WalkImage(nt, rest, visited, expanded)
             ELSE IF node.type = "TEX_IMAGE" /\ node.image # NoImage
             THEN [image |-> Some(node.image), expanded |-> Append(expanded, id)]
             ELSE WalkImage(nt, rest \o LinkedSources(nt, id, NodeInputs(node.type)),
                            visited \cup {id}, Append(expanded, id))

\* lines 43-74, with the nodes the walk expanded
basecolor_image_walk(mat) ==
    IF ~mat.use_nodes \/ IsNone(mat.node_tree) THEN [image |-> None, expanded |-> << >>]
    ELSE LET nt == mat.node_tree[1]
             principled == find_principled_node(nt)
         IN  IF IsNone(principled) THEN [image |-> None, expanded |-> << >>]
             ELSE IF ~IsLinked(nt, principled[1], "Base Color")
             THEN [image |-> None, expanded |-> << >>]
             ELSE WalkImage(nt, << first_link_source_socket(nt, principled[1], "Base Color")[1][1] >>,
                            {}, << >>)

find_basecolor_image_from_material(mat) == basecolor_image_walk(mat).image

(***************************************************************************)
(* bake.py : _walk_upstream_find_color_source                              *)
(***************************************************************************)
MaxWalkNodes == 250

ColorProviders == { "TEX_IMAGE", "RGB", "VERTEX_COLOR", "ATTRIBUTE" }

RECURSIVE PushNodes(_, _, _)
\* push_node for each id of ids in turn: <<stack, visited>>
PushNodes(ids, stack, visited) ==
    IF ids = << >> THEN << stack, visited >>
    ELSE IF Head(ids) \in visited THEN PushNodes(Tail(ids), stack, visited)
         ELSE PushNodes(Tail(ids), Append(stack, Head(ids)), visited \cup { Head(ids) })

RECURSIVE WalkColor(_, _, _, _)
WalkColor(nt, stack, visited, steps) ==
    IF stack = << >> \/ steps >= MaxWalkNodes THEN None
    ELSE LET id   == stack[Len(stack)]
             rest == SubSeq(stack, 1, Len(stack) - 1)
             node == NodeById(nt, id)
             next == PushNodes(LinkedSources(nt, id, NodeInputs(node.type)), rest, visited)
         IN  IF node.type \in ColorProviders THEN Some(<< id, ColorOutput(node.type) >>)
             ELSE WalkColor(nt, next[1], next[2], steps + 1)

walk_upstream_find_color_source(nt, from_socket) ==
    IF IsNone(from_socket) THEN None
    ELSE WalkColor(nt, << from_socket[1][1] >>, { from_socket[1][1] }, 0)
(***************************************************************************)
(* The world the exporter acts on.  A world record w holds                 *)
(*   fs       : project path -> file content (the files that exist)        *)
(*   dirs     : the output directories that exist under the project root   *)
(*   mats     : material id -> [name, use_nodes, node_tree, props, host]   *)
(*   selected, active : the view layer's selection and active object       *)
(*   engine   : scene.render.engine                                        *)
(*   passes   : scene.render.bake use_pass_direct / indirect / color       *)
(*   images   : number of image data-blocks in bpy.data.images             *)
(*   written  : the files written since the current operation started     *)
(*   trace    : the steps of the current operation, in order, each a tuple *)
(*              headed by the step's name                                  *)
(* written and trace are history fields; no operation reads them.          *)
(***************************************************************************)
FilePath(dir, name) == << "/", dir, "/" >> \o name
DirOf(path) == path[2]

\* os.path.isfile
IsFile(w, path) == path \in DOMAIN w.fs

\* utils.py ensure_dir / os.makedirs(path, exist_ok=True)
ensure_dir(w, dir) == [w EXCEPT !.dirs = @ \cup { dir }]

\* utils.py safe_remove_file
safe_remove_file(w, path) ==
    IF IsFile(w, path)
    THEN [w EXCEPT !.fs = [ q \in DOMAIN w.fs \ { path } |-> w.fs[q] ]]
    ELSE w

\* a variant that leaves an existing file as it is
write_text_file_if_absent(w, path, content) ==
    IF IsFile(w, path) THEN w
    ELSE [w EXCEPT !.fs = (path :> content) @@ @, !.written = @ \cup { path }]

\* utils.py write_text_file, and every other write of a whole file
write_text_file(w, path, content) ==
    [w EXCEPT !.fs = (path :> content) @@ @, !.written = @ \cup { path }]

Step(w, name) == [w EXCEPT !.trace = Append(@, name)]

\* utils.py select_only
select_only(w, o) == [w EXCEPT !.selected = { o }, !.active = o]

\* bake.py _set_active_object
set_active_object(w, o) == [w EXCEPT !.selected = { o }, !.active = o]

(***************************************************************************)
(* bake.py : bake_color_emit_png                                           *)
(*   c : the call, [obj, o, m, path, resolution, padding, host]            *)
(*     obj  : the object record;  o : its index in the scene (0: no object)*)
(*     m    : a material id of w.mats, or "none"                           *)
(*     host : how the host's calls behave during this call                 *)
(*            "ok"        every host call succeeds                         *)
(*            "render"    bpy.ops.object.bake raises                       *)
(*            "save"      img.save raises after a successful render        *)
(*            "select"    bpy.ops.object.select_all raises                 *)
(*            "nodes_new" nodes.new("ShaderNodeEmission") raises           *)
(* The result is [ret |-> "True" | "False" | "raised", w |-> world after]. *)
(* The function is written as its successive stages, each handing the      *)
(* world it leaves to the next.                                            *)
(***************************************************************************)
HostModes == { "ok", "render", "save", "select", "nodes_new" }

BakeCall(obj, o, m, path, resolution, padding, host) ==
    [obj |-> obj, o |-> o, m |-> m, path |-> path, resolution |-> resolution,
     padding |-> padding, host |-> host]

\* lines 10-15
ensure_cycles_engine(w) == [w EXCEPT !.engine = "CYCLES"]

\* lines 129-146
setup_diffuse_color_bake(w) ==
    [w EXCEPT !.passes = [direct |-> FALSE, indirect |-> FALSE, color |-> TRUE]]

\* lines 149-159
restore_diffuse_color_bake(w, prev) == [w EXCEPT !.passes = prev]

SetTree(w, m, nt) == [w EXCEPT !.mats[m].node_tree = Some(nt)]
TreeOf(w, m) == w.mats[m].node_tree[1]

\* lines 162-182
save_solid_png(w, path, rgba) ==
    write_text_file(ensure_dir(w, DirOf(path)), path,
                    [kind |-> "png", bake |-> "SOLID", source |-> << "constant", rgba >>,
                     size |-> 1, padding |-> 0])

\* lines 394-405: the links into Surface go and the original pairs come back
RestoreSurfaceLinks(nt, out, pairs) ==
    [nt EXCEPT !.links = { l \in @ : ~(l.tn = out /\ l.ts = "Surface") } \cup pairs]

\* lines 407-412: the two temporary nodes are removed
RemoveTempNodes(nt, emit, tex) == NodesRemove(NodesRemove(nt, emit), tex)

\* lines 389-426: the finally block
BakeFinally(w, c, g, prev_bake, ok) ==
    [ret |-> IF ok THEN "True" ELSE "False",
     w |-> [SetTree(IF g.can_emit THEN w ELSE restore_diffuse_color_bake(w, prev_bake), c.m,
                    RemoveTempNodes(RestoreSurfaceLinks(TreeOf(w, c.m), g.out, g.pairs),
                                    g.emit, g.tex))
            EXCEPT !.engine = g.prev_engine, !.images = @ - 1]]

\* lines 379-383: the baked image is saved to the output path
BakeSave(w, c, g, prev_bake) ==
    IF c.host = "render" \/ c.host = "save" THEN BakeFinally(w, c, g, prev_bake, FALSE)
    ELSE BakeFinally(
             write_text_file(w, c.path,
                 [kind |-> "png", bake |-> IF g.can_emit THEN "EMIT" ELSE "DIFFUSE",
                  source |-> g.source, size |-> c.resolution, padding |-> c.padding]),
             c, g, prev_bake, TRUE)

\* lines 371 and 376: bpy.ops.object.bake(type='EMIT' | 'DIFFUSE'), run with
\* the bake-pass flags in force at that moment
RenderStep(w, c, g) ==
    Step(w, << IF g.can_emit THEN "bake_emit" ELSE "bake_diffuse", c.m, w.passes >>)

\* lines 365-377: the emission bake, or the diffuse colour-only bake
BakeRender(w, c, g) ==
    BakeSave(RenderStep(IF g.can_emit THEN w ELSE setup_diffuse_color_bake(w), c, g),
             c, g, w.passes)

\* a variant that looks at the Principled Base Color only
ColorSourcePrincipledOnly(nt, principled, constant, pairs) ==
    IF ~IsNone(constant) THEN None
    ELSE IF ~IsNone(principled) /\ IsLinked(nt, principled[1], "Base Color")
    THEN first_link_source_socket(nt, principled[1], "Base Color")
    ELSE None

\* lines 316-331: A) the socket linked to the Principled Base Color, else
\* B) a colour provider upstream of the original Surface source
ColorSource(nt, principled, constant, pairs) ==
    IF ~IsNone(constant) THEN None
    ELSE IF ~IsNone(principled) /\ IsLinked(nt, principled[1], "Base Color")
    THEN first_link_source_socket(nt, principled[1], "Base Color")
    ELSE walk_upstream_find_color_source(nt,
             IF pairs = {} THEN None
             ELSE Some(<< (CHOOSE l \in pairs : TRUE).fn, (CHOOSE l \in pairs : TRUE).fs >>))

\* lines 333-352: the emission node is fed and linked to the output
BakeEmission(w, c, g, constant, from) ==
    BakeRender(
        SetTree(w, c.m,
            IF ~IsNone(constant)
            THEN LinksNew(TreeOf(w, c.m), << g.emit, "Emission" >>, g.out, "Surface")
            ELSE IF ~IsNone(from)
            THEN LinksNew(LinksNew(TreeOf(w, c.m), from[1], g.emit, "Color"),
                          << g.emit, "Emission" >>, g.out, "Surface")
            ELSE TreeOf(w, c.m)),
        c,
        [g EXCEPT !.can_emit = ~IsNone(constant) \/ ~IsNone(from),
                  !.source = IF ~IsNone(constant) THEN << "constant", constant[1] >>
                             ELSE IF ~IsNone(from) THEN << "socket", from[1] >>
                             ELSE << "diffuse", c.m >>])

\* lines 304-310: the temporary emission and image nodes
BakeTempNodes(w, c, g, principled, constant) ==
    IF c.host = "nodes_new" THEN [ret |-> "raised", w |-> w]
    ELSE BakeEmission(
             SetTree(w, c.m, NodesNew(NodesNew(TreeOf(w, c.m), "EMISSION"), "TEX_IMAGE")),
             c,
             [g EXCEPT !.emit = FreshId(TreeOf(w, c.m)), !.tex = FreshId(TreeOf(w, c.m)) + 1],
             constant,
             ColorSource(TreeOf(w, c.m), principled, constant, g.pairs))

\* lines 281-302: the Surface input, its original links saved and removed
BakeSurface(w, c, g, principled, constant) ==
    IF ~("Surface" \in Range(NodeInputs(NodeById(TreeOf(w, c.m), g.out).type)))
    THEN [ret |-> "False", w |-> [w EXCEPT !.images = @ - 1, !.engine = g.prev_engine]]
    ELSE BakeTempNodes(
             SetTree(w, c.m, [TreeOf(w, c.m) EXCEPT
                                 !.links = @ \ LinksInto(TreeOf(w, c.m), g.out, "Surface")]),
             c, [g EXCEPT !.pairs = LinksInto(TreeOf(w, c.m), g.out, "Surface")],
             principled, constant)

\* lines 276-279: the Material Output node, created when the tree has none
BakeOutputNode(w, c, g, principled, constant) ==
    IF IsNone(find_output_node(TreeOf(w, c.m)))
    THEN BakeSurface(SetTree(w, c.m, NodesNew(TreeOf(w, c.m), "OUTPUT_MATERIAL")), c,
                     [g EXCEPT !.out = FreshId(TreeOf(w, c.m))], principled, constant)
    ELSE BakeSurface(w, c, [g EXCEPT !.out = find_output_node(TreeOf(w, c.m))[1]],
                     principled, constant)

\* lines 253-271: the object made active, its material slot, the target image
BakeActivate(w, c, g, principled, constant) ==
    IF c.host = "select" THEN [ret |-> "raised", w |-> w]
    ELSE IF ~(c.m \in Range(c.obj.slots))
    THEN [ret |-> "False", w |-> [set_active_object(w, c.o) EXCEPT !.engine = g.prev_engine]]
    ELSE BakeOutputNode([set_active_object(w, c.o) EXCEPT !.images = @ + 1], c, g,
                        principled, constant)

\* lines 228-251: the UV check, the output directory and the render engine
BakeWithUV(w, c, principled, constant) ==
    IF ~c.obj.has_uv /\ ~IsNone(constant)
    THEN [ret |-> "True", w |-> Step(save_solid_png(w, c.path, constant[1]), << "bake_solid", c.m >>)]
    ELSE IF ~c.obj.has_uv THEN [ret |-> "False", w |-> w]
    ELSE BakeActivate(ensure_cycles_engine(ensure_dir(w, DirOf(c.path))), c,
                      [prev_engine |-> w.engine, out |-> 0, pairs |-> {}, emit |-> 0,
                       tex |-> 0, can_emit |-> FALSE, source |-> << >>],
                      principled, constant)

\* lines 217-226: the constant Base Color, when the input is not linked
EarlyConstant(w, m, principled) ==
    IF ~IsNone(principled) /\ ~IsLinked(TreeOf(w, m), principled[1], "Base Color")
    THEN Some(w.mats[m].base_color) ELSE None

bake_color_emit_png(w, c) ==
    IF c.o = 0 \/ c.obj.type # "MESH" THEN [ret |-> "False", w |-> w]
    ELSE IF c.m = "none" \/ ~w.mats[c.m].use_nodes \/ IsNone(w.mats[c.m].node_tree)
    THEN [ret |-> "False", w |-> w]
    ELSE BakeWithUV(w, c, find_principled_node(TreeOf(w, c.m)),
                    EarlyConstant(w, c.m, find_principled_node(TreeOf(w, c.m))))

(***************************************************************************)
(* Custom properties.  A property bag is a function whose domain is the    *)
(* set of keys present;  idblock.get(key) is None for an absent key.       *)
(***************************************************************************)
Get(props, key) == IF key \in DOMAIN props THEN Some(props[key]) ELSE None

\* utils.py get_prop: the object's property, else its mesh data's
get_prop(obj, key) ==
    IF ~IsNone(Get(obj.props, key)) THEN Get(obj.props, key) ELSE Get(obj.data_props, key)

\* truth value of an optional string
Truthy(v) == ~IsNone(v) /\ v[1] # << >>

\* export_core.py lines 44-57
has_defold_collision(obj) ==
    LET v == get_prop(obj, "defold_collision") IN ~IsNone(v) /\ v[1] = TRUE

get_collision_group(obj) ==
    LET v == get_prop(obj, "collision_group")
        str == IF IsNone(v) THEN << >> ELSE Strip(v[1])
    IN  IF str = << >> THEN << "default" >> ELSE str

get_collision_mask(obj) ==
    LET v == get_prop(obj, "collision_mask")
        str == IF IsNone(v) THEN << >> ELSE Strip(v[1])
    IN  IF str = << >> THEN << "default" >> ELSE str

\* export_core.py lines 75-92
make_baked_texture_filename(proto, mat_name) ==
    proto \o << "_", "_" >> \o sanitize_id(mat_name) \o << "_albedo.png" >>

material_prop_bool(mat, key, default) ==
    LET v == Get(mat.props, key) IN IF IsNone(v) THEN default ELSE v[1]

material_prop_int(mat, key, default) ==
    LET v == Get(mat.props, key) IN IF IsNone(v) THEN default ELSE v[1]

(***************************************************************************)
(* materials.py                                                            *)
(***************************************************************************)
DEFAULT_DEFOLD_TEXTURE == << "/builtins/assets/images/logo/logo_256.png" >>
BUILTIN_DEFAULT_DEFOLD_MATERIAL == << "/builtins/materials/model.material" >>
DEFAULT_BAKE_RESOLUTION == 1024
DEFAULT_BAKE_PADDING == 8

MaterialDefaults ==
    [defold_material |-> << >>, defold_texture |-> << >>, bake_color_texture |-> FALSE,
     bake_resolution |-> DEFAULT_BAKE_RESOLUTION, bake_padding |-> DEFAULT_BAKE_PADDING]

\* every key that is absent is added with its default
ensure_material_props(w, m) ==
    [w EXCEPT !.mats[m].props =
        [ k \in DOMAIN MaterialDefaults |-> IF k \in DOMAIN @ THEN @[k] ELSE MaterialDefaults[k] ]]

RECURSIVE EnsureAll(_, _)
EnsureAll(w, ms) ==
    IF ms = << >> THEN w ELSE EnsureAll(ensure_material_props(w, Head(ms)), Tail(ms))

RECURSIVE UniqueInOrder(_, _)
UniqueInOrder(slots, seen) ==
    IF slots = << >> THEN << >>
    ELSE IF Head(slots) = "none" \/ Head(slots) \in seen THEN UniqueInOrder(Tail(slots), seen)
         ELSE << Head(slots) >> \o UniqueInOrder(Tail(slots), seen \cup { Head(slots) })

\* a variant that yields the material of every filled slot
iter_materials_of_all_slots(obj) == SelectSeqBy(obj.slots, Range(obj.slots) \ { "none" })

iter_unique_materials_in_order(obj) == UniqueInOrder(obj.slots, {})

(***************************************************************************)
(* The images of the blend file.  filepath is the basename of the image's  *)
(* source file (None when the image has no file path); the source files    *)
(* live outside the project's output directories.  isfile: the source file *)
(* exists; saves: copying or saving the image succeeds.                    *)
(***************************************************************************)
Images ==
    [wood  |-> [name |-> << "w", "o", "o", "d" >>, filepath |-> Some(<< "w", ".png" >>),
                isfile |-> TRUE, saves |-> TRUE],
     paint |-> [name |-> << "M", "y", " ", "x" >>, filepath |-> None,
                isfile |-> FALSE, saves |-> TRUE],
     lost  |-> [name |-> << "b" >>, filepath |-> Some(<< "b", ".png" >>),
                isfile |-> FALSE, saves |-> FALSE]]

\* materials.py lines 76-103: [w |-> world after, name |-> the saved basename or None]
export_image_to_defold_project(w, img, textures_dir) ==
    LET image == Images[img]
        w1 == ensure_dir(w, textures_dir)
        src_abs == IF Truthy(image.filepath) /\ image.isfile THEN image.filepath ELSE None
        filename == IF ~IsNone(src_abs) THEN src_abs[1]
                    ELSE sanitize_id(image.name) \o << ".png" >>
        dst == FilePath(textures_dir, filename)
    IN  IF image.saves
        THEN [w |-> write_text_file(w1, dst, [kind |-> "image", image |-> img]),
              name |-> Some(filename)]
        ELSE [w |-> w1, name |-> None]

custom_prop_str(props, key) ==
    LET v == Get(props, key) IN IF IsNone(v) THEN << >> ELSE Strip(v[1])

\* materials.py line 113
MaterialName(w, m) ==
    IF m # "none" /\ w.mats[m].name # << >> THEN w.mats[m].name ELSE << "default" >>

\* a variant that asks the object before the material
CustomPathObjectFirst(w, m, obj, key) ==
    IF custom_prop_str(obj.props, key) # << >> THEN custom_prop_str(obj.props, key)
    ELSE IF m # "none" THEN custom_prop_str(w.mats[m].props, key)
    ELSE << >>

\* the custom property of the material, else of the object (lines 121-125, 129-133)
CustomPath(w, m, obj, key) ==
    IF m # "none" /\ custom_prop_str(w.mats[m].props, key) # << >>
    THEN custom_prop_str(w.mats[m].props, key)
    ELSE custom_prop_str(obj.props, key)

\* materials.py lines 121-127
ResolveMaterialPath(w, s, m, obj) ==
    IF CustomPath(w, m, obj, "defold_material") # << >>
    THEN CustomPath(w, m, obj, "defold_material")
    ELSE IF Strip(s.default_material) # << >> THEN Strip(s.default_material)
    ELSE BUILTIN_DEFAULT_DEFOLD_MATERIAL

\* materials.py lines 139-141 and 146-147
ResolveExported(e, s) ==
    [w |-> e.w,
     texture |-> IF IsNone(e.name) THEN DEFAULT_DEFOLD_TEXTURE
                 ELSE FilePath(s.textures_dir, e.name[1])]

\* materials.py lines 137-147
ResolveImage(w, s, img) ==
    IF IsNone(img) THEN [w |-> w, texture |-> DEFAULT_DEFOLD_TEXTURE]
    ELSE IF s.export_textures
    THEN ResolveExported(export_image_to_defold_project(w, img[1], s.textures_dir), s)
    ELSE [w |-> w,
          texture |-> IF Truthy(Images[img[1]].filepath)
                      THEN FilePath(s.textures_dir, Images[img[1]].filepath[1])
                      ELSE DEFAULT_DEFOLD_TEXTURE]

\* materials.py lines 129-147
ResolveTexture(w, s, m, custom) ==
    IF custom # << >> THEN [w |-> w, texture |-> custom]
    ELSE ResolveImage(w, s, IF m # "none" THEN find_basecolor_image_from_material(w.mats[m])
                            ELSE None)

ResolveNamed(t, name, material) ==
    [w |-> t.w, name |-> name, material |-> material, texture |-> t.texture]

\* materials.py lines 105-149.  m is a material id or "none";
\* the result is [w, name, material, texture]
resolve_defold_material_and_texture_for_material(w, s, m, obj) ==
    ResolveNamed(ResolveTexture(w, s, m, CustomPath(w, m, obj, "defold_texture")),
                 MaterialName(w, m), ResolveMaterialPath(w, s, m, obj))

(***************************************************************************)
(* defold_formats.py and collision.py : the texts of the output files      *)
(***************************************************************************)
make_model_text_multi(mesh_path_project, model_name, materials_blocks) ==
    [kind |-> "model", mesh |-> mesh_path_project, name |-> model_name,
     materials |-> materials_blocks]

\* collisionobject_project_path is None or Some(path)
make_go_ref_model_text(model_path_project, collisionobject_project_path) ==
    [kind |-> "go",
     components |->
        << [id |-> "model", component |-> model_path_project] >>
        \o (IF Truthy(collisionobject_project_path)
            THEN << [id |-> "collision", component |-> collisionobject_project_path[1]] >>
            ELSE << >>)]

\* f"{0.1:.3f}" and f"{0.5:.3f}"
make_collisionobject_text(convexshape_project_path, group, mask) ==
    [kind |-> "collisionobject", collision_shape |-> convexshape_project_path,
     type |-> "COLLISION_OBJECT_TYPE_STATIC", mass |-> "0.0",
     friction |-> "0.100", restitution |-> "0.500",
     group |-> IF group = << >> THEN << "default" >> ELSE group,
     mask |-> IF mask = << >> THEN << "default" >> ELSE mask]

\* a variant that opens the hull file whatever the mesh holds
export_convex_hull_always(w, obj, o, filepath) ==
    write_text_file(w, filepath,
        [kind |-> "convexshape", shape_type |-> "TYPE_HULL", hull_of |-> o])

\* collision.py lines 15-46: no file for a mesh without vertices
export_convex_hull_points(w, obj, o, filepath) ==
    IF obj.verts = 0 THEN w
    ELSE write_text_file(w, filepath,
             [kind |-> "convexshape", shape_type |-> "TYPE_HULL", hull_of |-> o])

\* utils.py export_glb_selected: the mesh file of the selected object
export_glb_selected(w, path) ==
    write_text_file(w, path, [kind |-> "glb", selection |-> w.selected])
(***************************************************************************)
(* export_core.py : export_single_prototype_assets                         *)
(*   s    : the settings record (context.scene.reforge_settings)           *)
(*   o    : the index of the object in the scene, 0 for no object          *)
(*   fail : the host call that raises during this run, "none" for none:    *)
(*          "glb" (export_scene.gltf), "model", "hull", "colobj", "go"     *)
(*          (the open/write of that file; the hull file is opened only for *)
(*          a mesh that has vertices)                                      *)
(* The result is [ret |-> "ok" | "raised", error, proto, w].               *)
(* The function is written as its successive stages; x is the run:         *)
(* [s, obj, o, proto, fail, materials].                                    *)
(***************************************************************************)
FailPoints == { "none", "glb", "model", "hull", "colobj", "go" }

\* os.path.isdir(project_root): the one directory that exists
ProjectDir == "/proj"
RootOk(s) == s.project_root # "" /\ s.project_root = ProjectDir

Raised(w, error) == [ret |-> "raised", error |-> error, proto |-> << >>, w |-> w]

\* lines 136-148 and 216-220: the paths of the outputs of a prototype
GlbPath(s, proto) == FilePath(s.models_dir, proto \o << ".glb" >>)
ModelPath(s, proto) == FilePath(s.models_dir, proto \o << ".model" >>)
GoPath(s, proto) == FilePath(s.prefabs_dir, proto \o << ".go" >>)
ConvexPath(s, proto) == FilePath(s.collisions_dir, proto \o << ".convexshape" >>)
ColobjPath(s, proto) == FilePath(s.collisions_dir, proto \o << ".collisionobject" >>)
BakedPath(s, proto, mat_name) ==
    FilePath(s.textures_dir, make_baked_texture_filename(proto, mat_name))

\* a variant that writes the prototype-definition file on every run
CreateGoAlways(w, abs_go, text) ==
    Step(write_text_file(w, abs_go, text), << "write_go" >>)

\* lines 226-228: the prototype-definition file is written only when absent
CreateGoOnce(w, abs_go, text) ==
    IF ~IsFile(w, abs_go) THEN Step(write_text_file(w, abs_go, text), << "write_go" >>) ELSE w

ExportGo(w, x, collisionobject_project_path) ==
    IF x.fail = "go" /\ ~IsFile(w, GoPath(x.s, x.proto)) THEN Raised(w, "go")
    ELSE [ret |-> "ok", error |-> "", proto |-> x.proto,
          w |-> CreateGoOnce(w, GoPath(x.s, x.proto),
                    make_go_ref_model_text(ModelPath(x.s, x.proto),
                                           collisionobject_project_path))]

\* line 223
ExportColobj(w, x) ==
    IF x.fail = "colobj" THEN Raised(w, "colobj")
    ELSE ExportGo(Step(write_text_file(w, ColobjPath(x.s, x.proto),
                           make_collisionobject_text(ConvexPath(x.s, x.proto),
                               get_collision_group(x.obj), get_collision_mask(x.obj))),
                       << "write_colobj" >>),
                  x, Some(ColobjPath(x.s, x.proto)))

\* lines 210-224
ExportCollision(w, x) ==
    IF ~has_defold_collision(x.obj) THEN ExportGo(w, x, None)
    ELSE IF x.fail = "hull" /\ x.obj.verts # 0 THEN Raised(w, "hull")
    ELSE ExportColobj(Step(export_convex_hull_points(w, x.obj, x.o, ConvexPath(x.s, x.proto)),
                           << "write_hull" >>), x)

\* a variant that goes on to the later steps when writing the .model file fails
ExportModelContinuing(mb, x) ==
    IF mb.ret = "raised" THEN Raised(mb.w, "bake")
    ELSE IF x.fail = "model" THEN ExportCollision(mb.w, x)
    ELSE ExportCollision(
             Step(write_text_file(mb.w, ModelPath(x.s, x.proto),
                      make_model_text_multi(GlbPath(x.s, x.proto), x.proto, mb.blocks)),
                  << "write_model" >>), x)

\* lines 207-208
ExportModel(mb, x) ==
    IF mb.ret = "raised" THEN Raised(mb.w, "bake")
    ELSE IF x.fail = "model" THEN Raised(mb.w, "model")
    ELSE ExportCollision(
             Step(write_text_file(mb.w, ModelPath(x.s, x.proto),
                      make_model_text_multi(GlbPath(x.s, x.proto), x.proto, mb.blocks)),
                  << "write_model" >>), x)

\* a variant that takes the baked path whatever the bake returned
BlockTextureAlwaysBaked(baked_ok, baked_project_path, resolved) == baked_project_path

\* lines 192-193: a successful bake overrides the resolved texture path
BlockTexture(baked_ok, baked_project_path, resolved) ==
    IF baked_ok THEN baked_project_path ELSE resolved

RECURSIVE MaterialBlocks(_, _, _, _)
\* lines 185-195: the block of a baked material
BlockBaked(b, r, x, ms, blocks) ==
    IF b.ret = "raised" THEN [ret |-> "raised", w |-> b.w, blocks |-> blocks]
    ELSE MaterialBlocks(Step(b.w, << "bake_returned", Head(ms), b.ret >>), x, Tail(ms),
             Append(blocks,
                 [name |-> r.name, material |-> r.material,
                  texture |-> BlockTexture(b.ret = "True", BakedPath(x.s, x.proto, r.name),
                                           r.texture)]))

\* lines 176-195: the block of a resolved material, baked when flagged
BlockResolved(r, x, ms, blocks) ==
    IF ~material_prop_bool(r.w.mats[Head(ms)], "bake_color_texture", FALSE)
    THEN MaterialBlocks(Step(r.w, << "resolve", Head(ms), r.texture >>), x, Tail(ms),
             Append(blocks, [name |-> r.name, material |-> r.material, texture |-> r.texture]))
    ELSE BlockBaked(
             bake_color_emit_png(
                 safe_remove_file(Step(r.w, << "resolve", Head(ms), r.texture >>),
                                  BakedPath(x.s, x.proto, r.name)),
                 BakeCall(x.obj, x.o, Head(ms), BakedPath(x.s, x.proto, r.name),
                     material_prop_int(r.w.mats[Head(ms)], "bake_resolution",
                                       DEFAULT_BAKE_RESOLUTION),
                     material_prop_int(r.w.mats[Head(ms)], "bake_padding",
                                       DEFAULT_BAKE_PADDING),
                     r.w.mats[Head(ms)].host)),
             r, x, ms, blocks)

\* lines 165-195: one block per material; the result is [ret, w, blocks]
MaterialBlocks(w, x, ms, blocks) ==
    IF ms = << >> THEN [ret |-> "ok", w |-> w, blocks |-> blocks]
    ELSE BlockResolved(
             resolve_defold_material_and_texture_for_material(w, x.s, Head(ms), x.obj),
             x, ms, blocks)

\* lines 196-205: the single default block of a mesh without materials
DefaultBlock(r) ==
    [ret |-> "ok", w |-> Step(r.w, << "resolve", "none", r.texture >>),
     blocks |-> << [name |-> r.name, material |-> r.material, texture |-> r.texture] >>]

\* lines 158-205
ExportGlb(w, x) ==
    IF x.fail = "glb" THEN Raised(w, "glb")
    ELSE IF x.materials # << >>
    THEN ExportModel(
             MaterialBlocks(Step(export_glb_selected(w, GlbPath(x.s, x.proto)),
                                 << "export_glb" >>), x, x.materials, << >>), x)
    ELSE ExportModel(
             DefaultBlock(resolve_defold_material_and_texture_for_material(
                 Step(export_glb_selected(w, GlbPath(x.s, x.proto)), << "export_glb" >>),
                 x.s, "none", x.obj)), x)

\* a variant that deletes the mesh and model files only
CleanupMeshOnly(w, s, proto) ==
    safe_remove_file(safe_remove_file(w, GlbPath(s, proto)), ModelPath(s, proto))

\* lines 150-156: the regenerated outputs of a previous run are deleted
CleanupGenerated(w, s, proto) ==
    safe_remove_file(
        safe_remove_file(
            safe_remove_file(
                safe_remove_file(w, GlbPath(s, proto)),
                ModelPath(s, proto)),
            ConvexPath(s, proto)),
        ColobjPath(s, proto))

\* lines 129-134
EnsureOutputDirs(w, s, needs_bake) ==
    IF s.export_textures \/ needs_bake
    THEN ensure_dir(ensure_dir(ensure_dir(ensure_dir(w, s.models_dir), s.prefabs_dir),
                               s.collisions_dir), s.textures_dir)
    ELSE ensure_dir(ensure_dir(ensure_dir(w, s.models_dir), s.prefabs_dir), s.collisions_dir)

\* line 127
NeedsBake(w, materials) ==
    \E i \in DOMAIN materials :
        material_prop_bool(w.mats[materials[i]], "bake_color_texture", FALSE)

\* lines 129-159, the material properties ensured
ExportEnsured(w, x) ==
    ExportGlb(
        select_only(
            Step(CleanupGenerated(
                     Step(EnsureOutputDirs(w, x.s, NeedsBake(w, x.materials)),
                          << "ensure_dirs" >>),
                     x.s, x.proto),
                 << "cleanup" >>),
            x.o),
        x)

\* lines 116-127, for an object that passed the checks
ExportValidated(w, s, obj, o, fail) ==
    ExportEnsured(EnsureAll(w, iter_unique_materials_in_order(obj)),
                  [s |-> s, obj |-> obj, o |-> o, fail |-> fail,
                   proto |-> sanitize_id(get_prop(obj, "defold_prototype")[1]),
                   materials |-> iter_unique_materials_in_order(obj)])

\* a variant that ensures the output directories before it checks its inputs
export_single_dirs_first(w, s, objects, o, fail) ==
    IF ~RootOk(s) \/ o = 0 \/ objects[o].type # "MESH"
       \/ ~Truthy(get_prop(objects[o], "defold_prototype"))
    THEN Raised(EnsureOutputDirs(Step(w, << "export_single", o >>), s, FALSE),
                "Active object cannot be exported.")
    ELSE ExportValidated(Step(w, << "export_single", o >>), s, objects[o], o, fail)

\* lines 105-115: the checks, made before anything is touched
ValidationError(s, objects, o) ==
    IF ~RootOk(s) THEN "Project Root is empty or not found."
    ELSE IF o = 0 \/ objects[o].type # "MESH" THEN "Active object is not a MESH."
    ELSE IF ~Truthy(get_prop(objects[o], "defold_prototype"))
    THEN "Active object has no 'defold_prototype' custom property."
    ELSE ""

export_single_prototype_assets(w, s, objects, o, fail) ==
    IF ValidationError(s, objects, o) # ""
    THEN Raised(Step(w, << "export_single", o >>), ValidationError(s, objects, o))
    ELSE ExportValidated(Step(w, << "export_single", o >>), s, objects[o], o, fail)
(***************************************************************************)
(* Numbers.  A float is the pair << whole, ticks >> that stands for        *)
(* whole + ticks * 1e-10, with |ticks| below 1e9; arithmetic on pairs is   *)
(* exact.                                                                  *)
(***************************************************************************)
Zero == << 0, 0 >>
One == << 1, 0 >>
Ticks(n) == << 0, n >>
Whole(n) == << n, 0 >>

NumNeg(a) == << 0 - a[1], 0 - a[2] >>
NumAdd(a, b) == << a[1] + b[1], a[2] + b[2] >>
NumSub(a, b) == << a[1] - b[1], a[2] - b[2] >>
\* the product of an integer and a number
IntTimes(k, a) == << k * a[1], k * a[2] >>

IsNegative(a) == a[1] < 0 \/ (a[1] = 0 /\ a[2] < 0)
NumAbs(a) == IF IsNegative(a) THEN NumNeg(a) ELSE a
NumSign(a) == IF a = Zero THEN 0 ELSE IF IsNegative(a) THEN 0 - 1 ELSE 1

\* 1e-9 in ticks
Tolerance == 10
\* abs(v) > 1e-9
AboveTolerance(a) == NumAbs(a)[1] > 0 \/ NumAbs(a)[2] > Tolerance

\* f"{v:.6f}": the sign and the number of millionths
Format6f(a) ==
    << IF IsNegative(a) THEN "-" ELSE "",
       NumAbs(a)[1] * 1000000 + ((NumAbs(a)[2] + 5000) \div 10000) >>

(***************************************************************************)
(* export_core.py : AXIS_CONVERT and to_defold_trs.  A matrix is a tuple   *)
(* of four rows of four entries.  The world matrices of the model are      *)
(* products of a translation, a rotation that is the identity or a half    *)
(* turn about an axis, and a positive scale: their linear part is          *)
(* diagonal, so that column lengths and quaternion components are exact.   *)
(***************************************************************************)
\* a variant that maps (x, y, z) to (x, z, y)
AxisConvertSwap ==
    << << 1, 0, 0, 0 >>, << 0, 0, 1, 0 >>, << 0, 1, 0, 0 >>, << 0, 0, 0, 1 >> >>

\* lines 36-41
AXIS_CONVERT ==
    << << 1, 0, 0, 0 >>, << 0, 0, 1, 0 >>, << 0, 0 - 1, 0, 0 >>, << 0, 0, 0, 1 >> >>

IdentityInt ==
    << << 1, 0, 0, 0 >>, << 0, 1, 0, 0 >>, << 0, 0, 1, 0 >>, << 0, 0, 0, 1 >> >>

\* the product of two integer matrices
IntMatMul(a, b) ==
    [ i \in 1..4 |-> [ j \in 1..4 |->
        a[i][1] * b[1][j] + a[i][2] * b[2][j] + a[i][3] * b[3][j] + a[i][4] * b[4][j] ] ]

\* the matrices with one entry 1 or -1 in each row and column
SignedPermutations ==
    { [ i \in 1..4 |-> [ j \in 1..4 |-> IF p[i] = j THEN s[i] ELSE 0 ] ] :
        p \in { q \in [1..4 -> 1..4] : \A i, j \in 1..4 : i # j => q[i] # q[j] },
        s \in [1..4 -> { 0 - 1, 1 }] }

\* Matrix.inverted() of a matrix of that kind
Inverted(c) == CHOOSE x \in SignedPermutations : IntMatMul(c, x) = IdentityInt

\* c.inverted(), line 68
AxisConvertInverted == Inverted(AXIS_CONVERT)

\* the entry (i, j) of c @ m for an integer matrix c
EntryLeft(c, m, i, j) ==
    NumAdd(NumAdd(IntTimes(c[i][1], m[1][j]), IntTimes(c[i][2], m[2][j])),
           NumAdd(IntTimes(c[i][3], m[3][j]), IntTimes(c[i][4], m[4][j])))

RowLeft(c, m, i) ==
    << EntryLeft(c, m, i, 1), EntryLeft(c, m, i, 2), EntryLeft(c, m, i, 3),
       EntryLeft(c, m, i, 4) >>

\* c @ m for an integer matrix c
MatMulLeft(c, m) ==
    << RowLeft(c, m, 1), RowLeft(c, m, 2), RowLeft(c, m, 3), RowLeft(c, m, 4) >>

\* the entry (i, j) of m @ c for an integer matrix c
EntryRight(m, c, i, j) ==
    NumAdd(NumAdd(IntTimes(c[1][j], m[i][1]), IntTimes(c[2][j], m[i][2])),
           NumAdd(IntTimes(c[3][j], m[i][3]), IntTimes(c[4][j], m[i][4])))

RowRight(m, c, i) ==
    << EntryRight(m, c, i, 1), EntryRight(m, c, i, 2), EntryRight(m, c, i, 3),
       EntryRight(m, c, i, 4) >>

\* m @ c for an integer matrix c
MatMulRight(m, c) ==
    << RowRight(m, c, 1), RowRight(m, c, 2), RowRight(m, c, 3), RowRight(m, c, 4) >>

\* line 68: mw_def = c @ mw @ c.inverted()  (each product is bound to a name,
\* as a member of a singleton set, so that it is computed once)
ConvertedMatrix(mw) ==
    CHOOSE mw_def \in { MatMulRight(c_mw, AxisConvertInverted) :
                           c_mw \in { MatMulLeft(AXIS_CONVERT, mw) } } : TRUE

\* Matrix.to_translation(): the fourth column
to_translation(m) == << m[1][4], m[2][4], m[3][4] >>

\* Matrix.to_scale(): the lengths of the columns of the linear part
to_scale(m) == << NumAbs(m[1][1]), NumAbs(m[2][2]), NumAbs(m[3][3]) >>

\* Matrix.to_quaternion() as (x, y, z, w), from the signs r of the diagonal of
\* the normalised linear part: x*x = (1 + r1 - r2 - r3) / 4, and so on
to_quaternion(m) ==
    << Whole((1 + NumSign(m[1][1]) - NumSign(m[2][2]) - NumSign(m[3][3])) \div 4),
       Whole((1 - NumSign(m[1][1]) + NumSign(m[2][2]) - NumSign(m[3][3])) \div 4),
       Whole((1 - NumSign(m[1][1]) - NumSign(m[2][2]) + NumSign(m[3][3])) \div 4),
       Whole((1 + NumSign(m[1][1]) + NumSign(m[2][2]) + NumSign(m[3][3])) \div 4) >>

\* lines 69-72: translation, rotation and scale of the converted matrix
Decomposed(mw_def) ==
    [pos |-> to_translation(mw_def), quat |-> to_quaternion(mw_def),
     scale |-> to_scale(mw_def)]

\* lines 60-72
to_defold_trs(obj) ==
    CHOOSE trs \in { Decomposed(mw_def) :
                        mw_def \in { ConvertedMatrix(obj.matrix_world) } } : TRUE

(***************************************************************************)
(* defold_formats.py : make_collection_text_grouped_embedded               *)
(***************************************************************************)
\* a variant that emits the three sub-blocks of every instance
InstanceBlockAlways(inst) ==
    [id |-> inst.id, prototype |-> inst.prototype,
     position |-> Some([ i \in 1..3 |-> Format6f(inst.pos[i]) ]),
     rotation |-> Some([ i \in 1..4 |-> Format6f(inst.quat[i]) ]),
     scale3   |-> Some([ i \in 1..3 |-> Format6f(inst.scale[i]) ])]

\* lines 43-73: one instance block
InstanceBlock(inst) ==
    [id |-> inst.id, prototype |-> inst.prototype,
     position |-> IF \E i \in 1..3 : AboveTolerance(inst.pos[i])
                  THEN Some([ i \in 1..3 |-> Format6f(inst.pos[i]) ]) ELSE None,
     rotation |-> IF \/ \E i \in 1..3 : AboveTolerance(inst.quat[i])
                     \/ AboveTolerance(NumSub(inst.quat[4], One))
                  THEN Some([ i \in 1..4 |-> Format6f(inst.quat[i]) ]) ELSE None,
     scale3   |-> IF \E i \in 1..3 : AboveTolerance(NumSub(inst.scale[i], One))
                  THEN Some([ i \in 1..3 |-> Format6f(inst.scale[i]) ]) ELSE None]

RECURSIVE InstanceBlocks(_, _)
InstanceBlocks(protos_sorted, instances_by_proto) ==
    IF protos_sorted = << >> THEN << >>
    ELSE LET insts == instances_by_proto[Head(protos_sorted)]
         IN  [ i \in DOMAIN insts |-> InstanceBlock(insts[i]) ]
             \o InstanceBlocks(Tail(protos_sorted), instances_by_proto)

\* a variant without group nodes: every instance is a child of the root
make_collection_text_flat(collection_name, protos_sorted, instances_by_proto) ==
    [kind |-> "collection", name |-> collection_name,
     instances |-> InstanceBlocks(protos_sorted, instances_by_proto),
     embedded |->
        << [id |-> << "r", "o", "o", "t" >>,
            children |-> [ i \in DOMAIN InstanceBlocks(protos_sorted, instances_by_proto) |->
                             InstanceBlocks(protos_sorted, instances_by_proto)[i].id ]] >>]

make_collection_text_grouped_embedded(collection_name, protos_sorted, instances_by_proto) ==
    [kind |-> "collection", name |-> collection_name,
     instances |-> InstanceBlocks(protos_sorted, instances_by_proto),
     embedded |->
        << [id |-> << "r", "o", "o", "t" >>, children |-> protos_sorted] >>
        \o [ k \in DOMAIN protos_sorted |->
               LET insts == instances_by_proto[protos_sorted[k]]
               IN  [id |-> protos_sorted[k],
                    children |-> [ i \in DOMAIN insts |-> insts[i].id ]] ]]

(***************************************************************************)
(* export_core.py : grouping, export_all_prototypes_assets_no_scene and    *)
(* run_export_scene                                                        *)
(***************************************************************************)
\* utils.py is_object_visible
is_object_visible(obj) == ~obj.hidden /\ obj.visible

Eligible(s, obj) ==
    /\ obj.type = "MESH"
    /\ ~(s.export_visible_only /\ ~is_object_visible(obj))
    /\ Truthy(get_prop(obj, "defold_prototype"))

ProtoOf(obj) == sanitize_id(get_prop(obj, "defold_prototype")[1])

RECURSIVE GroupObjects(_, _, _, _)
\* groups.setdefault(proto, []).append(obj) over the scene's objects: a dict
\* keeps its keys in insertion order.  keys: the prototype ids in first-seen
\* order;  members: prototype id -> the indices of its objects in scene order
GroupObjects(s, objects, i, groups) ==
    IF i > Len(objects) THEN groups
    ELSE IF ~Eligible(s, objects[i]) THEN GroupObjects(s, objects, i + 1, groups)
    ELSE LET proto == ProtoOf(objects[i])
         IN  IF proto \in Range(groups.keys)
             THEN GroupObjects(s, objects, i + 1,
                      [groups EXCEPT !.members[proto] = Append(@, i)])
             ELSE GroupObjects(s, objects, i + 1,
                      [keys |-> Append(groups.keys, proto),
                       members |-> (proto :> << i >>) @@ groups.members])

Groups(s, objects) == GroupObjects(s, objects, 1, [keys |-> << >>, members |-> << >>])

\* a variant that takes the last object of the group
RepresentativeLast(groups, proto) == groups.members[proto][Len(groups.members[proto])]

\* the representative ("etalon") of a group: its first object
Representative(groups, proto) == groups.members[proto][1]

RECURSIVE ExportEach(_, _, _, _, _, _, _, _)
\* a variant that skips a prototype whose export raises and goes on
ExportNextContinuing(r, s, objects, groups, order, k, failCall, fail) ==
    IF r.ret = "raised"
    THEN [ExportEach(r.w, s, objects, groups, Tail(order), k + 1, failCall, fail)
             EXCEPT !.ret = "raised", !.error = r.error]
    ELSE ExportEach(r.w, s, objects, groups, Tail(order), k + 1, failCall, fail)

\* lines 256-260 and 302-304: the batch stops at the first call that raises
ExportNext(r, s, objects, groups, order, k, failCall, fail) ==
    IF r.ret = "raised" THEN [ret |-> "raised", error |-> r.error, w |-> r.w]
    ELSE ExportEach(r.w, s, objects, groups, Tail(order), k + 1, failCall, fail)

\* export_single_prototype_assets for each prototype id of order in turn; the
\* call number failCall (0: none) meets the host failure fail
ExportEach(w, s, objects, groups, order, k, failCall, fail) ==
    IF order = << >> THEN [ret |-> "ok", error |-> "", w |-> w]
    ELSE ExportNext(export_single_prototype_assets(w, s, objects,
                        Representative(groups, Head(order)),
                        IF k = failCall THEN fail ELSE "none"),
                    s, objects, groups, order, k, failCall, fail)

NoObjectsError == "No MESH objects with 'defold_prototype' found (with current visibility filter)."

\* lines 253-261, the objects grouped
AllGrouped(w, s, objects, groups, failCall, fail) ==
    IF groups.keys = << >> THEN [ret |-> "raised", error |-> NoObjectsError, w |-> w]
    ELSE ExportEach(w, s, objects, groups, SortedStrs(Range(groups.keys)), 1, failCall, fail)

\* lines 233-261
export_all_prototypes_assets_no_scene(w, s, objects, failCall, fail) ==
    AllGrouped(w, s, objects, Groups(s, objects), failCall, fail)

\* a variant whose counter is never incremented
InstancesUncounted(s, objects, groups, proto) ==
    [ k \in DOMAIN groups.members[proto] |->
        [id |-> proto \o << "_" >> \o Format03d(1),
         prototype |-> FilePath(s.prefabs_dir, proto \o << ".go" >>),
         pos |-> to_defold_trs(objects[groups.members[proto][k]]).pos,
         quat |-> to_defold_trs(objects[groups.members[proto][k]]).quat,
         scale |-> to_defold_trs(objects[groups.members[proto][k]]).scale] ]

\* a variant with one counter for the whole scene: the object's place in it
InstancesSceneCounter(s, objects, groups, proto) ==
    [ k \in DOMAIN groups.members[proto] |->
        [id |-> proto \o << "_" >> \o Format03d(groups.members[proto][k]),
         prototype |-> FilePath(s.prefabs_dir, proto \o << ".go" >>),
         pos |-> to_defold_trs(objects[groups.members[proto][k]]).pos,
         quat |-> to_defold_trs(objects[groups.members[proto][k]]).quat,
         scale |-> to_defold_trs(objects[groups.members[proto][k]]).scale] ]

\* lines 315-321: the record of one instance
Instance(inst_id, prototype, trs) ==
    [id |-> inst_id, prototype |-> prototype,
     pos |-> trs.pos, quat |-> trs.quat, scale |-> trs.scale]

\* lines 306-321: the instance records of one prototype, the counter kept per prototype
InstancesOf(s, objects, groups, proto) ==
    [ k \in DOMAIN groups.members[proto] |->
        Instance(proto \o << "_" >> \o Format03d(k),
                 FilePath(s.prefabs_dir, proto \o << ".go" >>),
                 to_defold_trs(objects[groups.members[proto][k]])) ]

\* a variant that appends the instances to those of an existing collection file
WriteCollectionAppending(w, s, objects, groups) ==
    Step(write_text_file(w,
             FilePath(s.scenes_dir, s.collection_name \o << ".collection" >>),
             [make_collection_text_grouped_embedded(s.collection_name,
                  SortedStrs(Range(groups.keys)),
                  [ proto \in Range(groups.keys) |-> InstancesOf(s, objects, groups, proto) ])
              EXCEPT !.instances =
                  (IF IsFile(w, FilePath(s.scenes_dir, s.collection_name \o << ".collection" >>))
                   THEN w.fs[FilePath(s.scenes_dir,
                                      s.collection_name \o << ".collection" >>)].instances
                   ELSE << >>) \o @]),
         << "write_collection" >>)

\* lines 323-333: the collection file, removed and written anew
WriteCollection(w, s, objects, groups) ==
    Step(write_text_file(
             safe_remove_file(w, FilePath(s.scenes_dir, s.collection_name \o << ".collection" >>)),
             FilePath(s.scenes_dir, s.collection_name \o << ".collection" >>),
             make_collection_text_grouped_embedded(s.collection_name,
                 SortedStrs(Range(groups.keys)),
                 [ proto \in Range(groups.keys) |-> InstancesOf(s, objects, groups, proto) ])),
         << "write_collection" >>)

\* lines 306-333, the prototypes exported
SceneExported(exported, s, objects, groups) ==
    IF exported.ret = "raised" THEN exported
    ELSE [ret |-> "ok", error |-> "", w |-> WriteCollection(exported.w, s, objects, groups)]

\* lines 283-304, the objects grouped
SceneGrouped(w, s, objects, groups, failCall, fail) ==
    IF groups.keys = << >> THEN [ret |-> "raised", error |-> NoObjectsError, w |-> w]
    ELSE SceneExported(ExportEach(w, s, objects, groups, groups.keys, 1, failCall, fail),
                       s, objects, groups)

\* lines 264-333
run_export_scene(w, s, objects, failCall, fail) ==
    IF ~RootOk(s)
    THEN [ret |-> "raised", error |-> "Project Root is empty or not found.", w |-> w]
    ELSE SceneGrouped(ensure_dir(w, s.scenes_dir), s, objects, Groups(s, objects),
                      failCall, fail)
(***************************************************************************)
(* State.                                                                  *)
(***************************************************************************)
VARIABLES
    settings,   \* context.scene.reforge_settings
    objects,    \* context.scene.objects, in scene order
    mats,       \* bpy.data.materials: material id -> material
    fs,         \* the files under the project root
    dirs,       \* the directories under the project root
    selected,   \* the selected objects
    active,     \* view_layer.objects.active (0: none)
    engine,     \* scene.render.engine
    passes,     \* scene.render.bake pass flags
    images,     \* number of image data-blocks
    last,       \* history: the last operation, its result, writes and steps
    edits       \* history: number of manual edits made so far

vars == << settings, objects, mats, fs, dirs, selected, active, engine, passes, images,
           last, edits >>

World ==
    [fs |-> fs, dirs |-> dirs, mats |-> mats, selected |-> selected, active |-> active,
     engine |-> engine, passes |-> passes, images |-> images, written |-> {}, trace |-> << >>]

\* the world after an operation becomes the state; last records the operation
Commit(w, op, arg, ret, error) ==
    /\ fs' = w.fs
    /\ dirs' = w.dirs
    /\ mats' = w.mats
    /\ selected' = w.selected
    /\ active' = w.active
    /\ engine' = w.engine
    /\ passes' = w.passes
    /\ images' = w.images
    /\ last' = [op |-> op, arg |-> arg, ret |-> ret, error |-> error,
                written |-> w.written, trace |-> w.trace,
                repeat |-> op = last.op /\ ret = "ok" /\ last.ret = "ok",
                recovers |-> /\ op = "single" /\ last.op = "single" /\ arg = last.arg
                             /\ ret = "ok" /\ last.ret = "raised" /\ last.written # {}]

CommitResult(r, op, arg) == Commit(r.w, op, arg, r.ret, r.error)
BakeCommit(r, arg) == Commit(r.w, "bake", arg, r.ret, "")

NoOp == [op |-> "init", arg |-> 0, ret |-> "ok", error |-> "", written |-> {},
         trace |-> << >>, repeat |-> FALSE, recovers |-> FALSE]

(***************************************************************************)
(* Node graphs of the materials used by the specifications.                *)
(***************************************************************************)
Link(fn, fs_, tn, ts) == [fn |-> fn, fs |-> fs_, tn |-> tn, ts |-> ts]
Node(id, type, image) == [id |-> id, type |-> type, image |-> image]

\* image texture -> Principled Base Color -> Material Output
GraphTextured ==
    [nodes |-> << Node(1, "BSDF_PRINCIPLED", NoImage), Node(2, "OUTPUT_MATERIAL", NoImage),
                  Node(3, "TEX_IMAGE", "wood") >>,
     links |-> { Link(3, "Color", 1, "Base Color"), Link(1, "BSDF", 2, "Surface") }]

\* Principled with a constant Base Color -> Material Output
GraphConstant ==
    [nodes |-> << Node(1, "BSDF_PRINCIPLED", NoImage), Node(2, "OUTPUT_MATERIAL", NoImage) >>,
     links |-> { Link(1, "BSDF", 2, "Surface") }]

\* a Principled node alone: the tree has no Material Output node
GraphNoOutput ==
    [nodes |-> << Node(1, "BSDF_PRINCIPLED", NoImage) >>, links |-> {}]

\* no Principled: RGB -> Mix -> Material Output, the Mix fed back into itself
GraphMixed ==
    [nodes |-> << Node(1, "OUTPUT_MATERIAL", NoImage), Node(2, "MIX", NoImage),
                  Node(3, "RGB", NoImage) >>,
     links |-> { Link(2, "Out", 1, "Surface"), Link(2, "Out", 2, "A"),
                 Link(3, "Color", 2, "B") }]

\* no Principled and no colour provider: Noise -> Material Output
GraphProcedural ==
    [nodes |-> << Node(1, "OUTPUT_MATERIAL", NoImage), Node(2, "TEX_NOISE", NoImage) >>,
     links |-> { Link(2, "Out", 1, "Surface") }]

\* image (without file path) behind a Mix -> Principled Base Color -> Output
GraphLayered ==
    [nodes |-> << Node(1, "TEX_IMAGE", "paint"), Node(2, "MIX", NoImage),
                  Node(3, "BSDF_PRINCIPLED", NoImage), Node(4, "OUTPUT_MATERIAL", NoImage) >>,
     links |-> { Link(1, "Color", 2, "A"), Link(2, "Out", 3, "Base Color"),
                 Link(3, "BSDF", 4, "Surface") }]

Material(name, tree, props, host) ==
    [name |-> name, use_nodes |-> TRUE, node_tree |-> Some(tree), props |-> props,
     host |-> host, base_color |-> << "0.8", "0.8", "0.8", "1.0" >>]

\* the world matrix of an object moved by loc (in ticks), not turned, not scaled
TranslationMatrix(loc) ==
    << << One, Zero, Zero, Ticks(loc[1]) >>,
       << Zero, One, Zero, Ticks(loc[2]) >>,
       << Zero, Zero, One, Ticks(loc[3]) >>,
       << Zero, Zero, Zero, One >> >>

MeshObject(props, data_props, slots, has_uv, verts, visible, loc) ==
    [type |-> "MESH", props |-> props, data_props |-> data_props, slots |-> slots,
     has_uv |-> has_uv, verts |-> verts, hidden |-> FALSE, visible |-> visible,
     matrix_world |-> TranslationMatrix(loc)]

Crate == << "c", "r", "a", "t", "e" >>
Box == << "b", "o", "x" >>

DefaultSettings ==
    [project_root |-> ProjectDir, collection_name |-> << "scene_from_blender" >>,
     export_visible_only |-> TRUE, export_textures |-> TRUE,
     default_material |-> BUILTIN_DEFAULT_DEFOLD_MATERIAL,
     models_dir |-> "assets/models", prefabs_dir |-> "assets/prefabs",
     scenes_dir |-> "assets/scenes", textures_dir |-> "assets/textures",
     collisions_dir |-> "assets/collisions"]

(***************************************************************************)
(* Spec: the prototype exporter on a scene of three objects                *)
(*   1  the prototype's mesh: either a crate with material slots [A, B, A],*)
(*      UVs and vertices, or a box whose prototype id is a property of its *)
(*      mesh data, with the collision flag set, no material and no vertex  *)
(*   2  a light carrying a prototype id                                    *)
(*   3  a mesh without prototype id                                        *)
(* exported alone or with the scene, while the user flips the collision    *)
(* flag and the bake flag of material A and edits the prototype-definition *)
(* file by hand.  Material B is flagged for baking; the render of material *)
(* A succeeds or fails, as chosen initially.                               *)
(***************************************************************************)
CrateObject ==
    MeshObject(("defold_prototype" :> Crate) @@ ("defold_collision" :> FALSE),
               << >>, << "A", "B", "A" >>, TRUE, 8, TRUE, << 0, 0, 0 >>)

BoxObject ==
    MeshObject(("defold_collision" :> TRUE), ("defold_prototype" :> Box),
               << >>, FALSE, 0, TRUE, << 20000, 0, 0 >>)

LightObject ==
    [MeshObject(("defold_prototype" :> Crate), << >>, << >>, FALSE, 0, TRUE, << 0, 0, 0 >>)
        EXCEPT !.type = "LIGHT"]

BareObject == MeshObject(<< >>, << >>, << "B" >>, TRUE, 8, TRUE, << 0, 0, 0 >>)

MaterialA(tree, props, host) == Material(<< "M", "y", " ", "A" >>, tree, props, host)
MaterialB == Material(<< "B" >>, GraphConstant, << >>, "ok")

\* the host as the add-on finds it
InitHost ==
    /\ selected = {}
    /\ active = 0
    /\ engine = "BLENDER_EEVEE_NEXT"
    /\ passes = [direct |-> TRUE, indirect |-> TRUE, color |-> TRUE]
    /\ images = 0
    /\ last = NoOp
    /\ edits = 0

\* an empty project
InitWorld ==
    /\ fs = << >>
    /\ dirs = {}
    /\ InitHost

Init ==
    /\ \E r \in { ProjectDir, "", "/missing" },
          x \in { CrateObject, BoxObject }, h \in { "ok", "render" } :
          /\ x = BoxObject => h = "ok"
          /\ r # ProjectDir => h = "ok"
          /\ settings = [DefaultSettings EXCEPT !.project_root = r]
          /\ objects = << x, LightObject, BareObject >>
          /\ mats = [A |-> MaterialA(GraphTextured, << >>, h),
                     B |-> [MaterialB EXCEPT !.props = ("bake_color_texture" :> TRUE)]]
    /\ InitWorld

\* export_single_prototype_assets(context, obj) on object o (0: no object), as the
\* operator "Export Selected Prototype" calls it
ExportSingle(o, fail) ==
    /\ CommitResult(export_single_prototype_assets(World, settings, objects, o, fail),
                    "single", o)
    /\ UNCHANGED << settings, objects, edits >>

\* export_all_prototypes_assets_no_scene(context), as the operator "Export ALL
\* Prototypes" calls it
ExportAll(failCall, fail) ==
    /\ CommitResult(export_all_prototypes_assets_no_scene(World, settings, objects,
                                                          failCall, fail), "all", 0)
    /\ UNCHANGED << settings, objects, edits >>

\* run_export_scene(context), as the operator "Generate" calls it
RunExportScene(failCall, fail) ==
    /\ CommitResult(run_export_scene(World, settings, objects, failCall, fail), "scene", 0)
    /\ UNCHANGED << settings, objects, edits >>

\* the user flips the collision flag of an object
ToggleCollision(o) ==
    /\ "defold_collision" \in DOMAIN objects[o].props
    /\ objects' = [objects EXCEPT ![o].props["defold_collision"] = ~@]
    /\ last' = [NoOp EXCEPT !.op = "flag", !.arg = o]
    /\ UNCHANGED << settings, mats, fs, dirs, selected, active, engine, passes, images, edits >>

\* the user flips the bake flag of a material
ToggleBake(m) ==
    /\ mats' = [mats EXCEPT ![m].props =
                   ("bake_color_texture" :> ~material_prop_bool(mats[m], "bake_color_texture", FALSE))
                   @@ @]
    /\ last' = [NoOp EXCEPT !.op = "flag"]
    /\ UNCHANGED << settings, objects, fs, dirs, selected, active, engine, passes, images, edits >>

GoPaths == { p \in DOMAIN fs : p[Len(p)] = ".go" }

\* the user edits an existing prototype-definition file in the Defold editor
ManualEditGo(p) ==
    /\ edits < MaxEdits
    /\ p \in GoPaths
    /\ fs' = [fs EXCEPT ![p] = [@ EXCEPT !.components =
                  Append(@, [id |-> "script", component |-> << "/main/logic.script" >>])]]
    /\ edits' = edits + 1
    /\ last' = [NoOp EXCEPT !.op = "edit"]
    /\ UNCHANGED << settings, objects, mats, dirs, selected, active, engine, passes, images >>

UsesMaterial(m) ==
    \E i \in DOMAIN objects : Eligible(settings, objects[i]) /\ m \in Range(objects[i].slots)

Next ==
    \/ \E o \in 0..Len(objects), fail \in FailPoints : ExportSingle(o, fail)
    \/ RunExportScene(0, "none")
    \/ \E o \in DOMAIN objects : ToggleCollision(o)
    \/ UsesMaterial("A") /\ ToggleBake("A")
    \/ \E p \in GoPaths : ManualEditGo(p)

Spec == Init /\ [][Next]_vars

(***************************************************************************)
(* SpecScene: the scene compiler and the batch exporter on every scene of  *)
(* at most MaxObjs objects drawn from a pool: crates whose raw prototype   *)
(* ids differ but sanitize to the same id, a mesh whose prototype id looks *)
(* like an instance id, a hidden box and a light.                          *)
(* The output directories start empty or hold the files of an earlier,     *)
(* hand-edited export.  A run meets no host failure, or its first or       *)
(* second prototype export fails.                                          *)
(***************************************************************************)
SceneCrate ==
    MeshObject(("defold_prototype" :> Crate), << >>, << "A" >>, TRUE, 8, TRUE,
               << 10000, 20000, 30000 >>)

\* raw id " crate": another member of the group "crate", with a collision body
SceneCrateSpaced ==
    MeshObject(("defold_prototype" :> (<< " " >> \o Crate)) @@ ("defold_collision" :> TRUE),
               << >>, << "B" >>, TRUE, 8, TRUE, << 0, 0, 0 >>)

\* prototype id "crate_001", a property of the mesh data
SceneCrate001 ==
    MeshObject(<< >>, ("defold_prototype" :> (Crate \o << "_", "0", "0", "1" >>)), << >>,
               FALSE, 8, TRUE, << 0 - 40000, 0, 50000 >>)

SceneHiddenBox ==
    MeshObject(("defold_prototype" :> Box), << >>, << >>, FALSE, 8, FALSE, << 0, 60000, 0 >>)

ScenePool == { SceneCrate, SceneCrateSpaced, SceneCrate001, SceneHiddenBox, LightObject }

Scenes == UNION { [1..n -> ScenePool] : n \in 1..MaxObjs }

\* what an earlier export and a manual edit left behind
StaleFiles ==
    (GoPath(DefaultSettings, Crate) :>
        [kind |-> "go",
         components |-> << [id |-> "model", component |-> ModelPath(DefaultSettings, Crate)],
                           [id |-> "script", component |-> << "/main/logic.script" >>] >>])
    @@ (ColobjPath(DefaultSettings, Crate) :>
        make_collisionobject_text(ConvexPath(DefaultSettings, Crate), << >>, << >>))
    @@ (FilePath(DefaultSettings.scenes_dir,
                 DefaultSettings.collection_name \o << ".collection" >>) :>
        make_collection_text_grouped_embedded(DefaultSettings.collection_name, << >>, << >>))

\* a fresh project, or one already used: stale files, material A flagged for baking
InitScene ==
    /\ settings = DefaultSettings
    /\ objects \in Scenes
    /\ \E used \in BOOLEAN :
          /\ mats = [A |-> MaterialA(GraphTextured,
                               IF used THEN ("bake_color_texture" :> TRUE) ELSE << >>, "ok"),
                     B |-> MaterialB]
          /\ fs = IF used THEN StaleFiles ELSE << >>
          /\ dirs = IF used THEN { DirOf(q) : q \in DOMAIN StaleFiles } ELSE {}
    /\ InitHost

NextScene ==
    \/ \E k \in 0..2 : RunExportScene(k, IF k = 0 THEN "none" ELSE "model")
    \/ \E k \in 0..2 : ExportAll(k, IF k = 0 THEN "none" ELSE "model")

SpecScene == InitScene /\ [][NextScene]_vars

(***************************************************************************)
(* SpecBake: bake_color_emit_png called on the material A of object 1,     *)
(* over the node graphs above, with and without UVs, with the material in  *)
(* the object's slots or not, from either render engine, with any          *)
(* selection, and with each behaviour of the host's calls.  Object 2 is    *)
(* another object of the scene, which the user may have selected.          *)
(***************************************************************************)
\* image data-blocks a failed call may leave behind in one behaviour
MaxLeakedImages == 2

BakeGraphs ==
    { GraphTextured, GraphConstant, GraphNoOutput, GraphMixed, GraphProcedural, GraphLayered }

BakeTargets ==
    { MeshObject(<< >>, << >>, << "A" >>, TRUE, 8, TRUE, << 0, 0, 0 >>),
      MeshObject(<< >>, << >>, << "A" >>, FALSE, 8, TRUE, << 0, 0, 0 >>),
      MeshObject(<< >>, << >>, << "B" >>, TRUE, 8, TRUE, << 0, 0, 0 >>),
      LightObject }

BakedTestPath == BakedPath(DefaultSettings, Crate, << "M", "y", " ", "A" >>)

InitBake ==
    /\ settings = DefaultSettings
    /\ \E x \in BakeTargets : objects = << x, BareObject >>
    /\ \E g \in BakeGraphs, nodes \in BOOLEAN :
          mats = [A |-> [MaterialA(g, << >>, "ok") EXCEPT !.use_nodes = nodes],
                  B |-> MaterialB]
    /\ fs = << >>
    /\ dirs = {}
    /\ \E o \in { 0, 2 } : selected = (IF o = 0 THEN {} ELSE { o }) /\ active = o
    /\ engine \in { "BLENDER_EEVEE_NEXT", "CYCLES" }
    /\ passes \in { [direct |-> TRUE, indirect |-> TRUE, color |-> TRUE],
                    [direct |-> FALSE, indirect |-> TRUE, color |-> FALSE] }
    /\ images = 0
    /\ last = NoOp
    /\ edits = 0

\* one call of bake_color_emit_png(obj, mat, out_abs_path, resolution, padding)
Bake(o, m, host) ==
    /\ images < MaxLeakedImages
    /\ BakeCommit(bake_color_emit_png(World,
                      BakeCall(IF o = 0 THEN None ELSE objects[o], o, m, BakedTestPath,
                               DEFAULT_BAKE_RESOLUTION, DEFAULT_BAKE_PADDING, host)),
                  << o, m, host >>)
    /\ UNCHANGED << settings, objects, edits >>

NextBake ==
    \E o \in 0..1, m \in { "A", "none" }, host \in HostModes : Bake(o, m, host)

SpecBake == InitBake /\ [][NextBake]_vars

(***************************************************************************)
(* SpecResolve: resolve_defold_material_and_texture_for_material called    *)
(* for material A of object 1, or for no material, over every combination  *)
(* of: texture export enabled or not; the material's and the object's      *)
(* defold_texture absent, blank or set; the Base Color fed by an image     *)
(* with a source file, by an image without file path behind a Mix node, by *)
(* an image whose source file is missing and cannot be saved, or constant. *)
(***************************************************************************)
\* image (source file missing) -> Principled Base Color -> Material Output
GraphLost ==
    [nodes |-> << Node(1, "BSDF_PRINCIPLED", NoImage), Node(2, "OUTPUT_MATERIAL", NoImage),
                  Node(3, "TEX_IMAGE", "lost") >>,
     links |-> { Link(3, "Color", 1, "Base Color"), Link(1, "BSDF", 2, "Surface") }]

ResolveGraphs == { GraphTextured, GraphLayered, GraphLost, GraphConstant }

BlankText == << " ", "\t" >>
MaterialTexture == << " ", "/", "t", "/", "a", ".", "p", " " >>
ObjectTexture == << "/", "t", "/", "o", ".", "p", "\t" >>

TextureProps(text) ==
    { << >>, ("defold_texture" :> BlankText), ("defold_texture" :> text) }

InitResolve ==
    /\ \E e \in BOOLEAN : settings = [DefaultSettings EXCEPT !.export_textures = e]
    /\ \E op \in TextureProps(ObjectTexture) :
          objects = << MeshObject(op, << >>, << "A" >>, TRUE, 8, TRUE, << 0, 0, 0 >>) >>
    /\ \E g \in ResolveGraphs, mp \in TextureProps(MaterialTexture) :
          mats = [A |-> MaterialA(g, mp, "ok"), B |-> MaterialB]
    /\ InitWorld

\* one call of resolve_defold_material_and_texture_for_material(settings, mat,
\* abs_textures_dir, textures_dir_project, obj); last.ret is the texture reference
Resolve(m) ==
    /\ Commit(resolve_defold_material_and_texture_for_material(World, settings, m,
                                                               objects[1]).w,
              "resolve", m,
              resolve_defold_material_and_texture_for_material(World, settings, m,
                                                               objects[1]).texture,
              "")
    /\ UNCHANGED << settings, objects, edits >>

NextResolve == \E m \in { "A", "none" } : Resolve(m)

SpecResolve == InitResolve /\ [][NextResolve]_vars

(***************************************************************************)
(* SpecSanitize: sanitize_id applied to the defold_prototype of an object, *)
(* over every string of at most MaxIdLen characters of a small alphabet    *)
(* (space, tab, a letter, a non-ASCII letter, punctuation, '_' and '-')    *)
(* and the string "My Box!!".                                              *)
(***************************************************************************)
\* length of the strings sanitize_id is applied to
MaxIdLen == 3

IdAlphabet == { " ", "\t", "a", "U+00E9", "!", "_", "-" }

MyBox == << "M", "y", " ", "B", "o", "x", "!", "!" >>

RawIds == UNION { [1..n -> IdAlphabet] : n \in 0..MaxIdLen } \cup { MyBox }

InitSanitize ==
    /\ settings = DefaultSettings
    /\ \E raw \in RawIds :
          objects = << MeshObject(("defold_prototype" :> raw), << >>, << >>, FALSE, 0, TRUE,
                                  << 0, 0, 0 >>) >>
    /\ mats = [A |-> MaterialA(GraphTextured, << >>, "ok"), B |-> MaterialB]
    /\ InitWorld

\* sanitize_id(obj["defold_prototype"]); last.arg is the input, last.ret the id
Sanitize(o) ==
    /\ last.op = "init"
    /\ last' = [NoOp EXCEPT !.op = "sanitize", !.arg = objects[o].props["defold_prototype"],
                            !.ret = sanitize_id(objects[o].props["defold_prototype"])]
    /\ UNCHANGED << settings, objects, mats, fs, dirs, selected, active, engine, passes,
                    images, edits >>

NextSanitize == \E o \in DOMAIN objects : Sanitize(o)

SpecSanitize == InitSanitize /\ [][NextSanitize]_vars

(***************************************************************************)
(* SpecFormat: make_collection_text_grouped_embedded called with one       *)
(* instance of the prototype "crate", whose position, quaternion and scale *)
(* lie at, just off (1e-10), on the edge of (1e-9) and well off (1e-8) the *)
(* identity transform.                                                     *)
(***************************************************************************)
\* position components, in ticks: 0, 1e-10, 1e-9, 1e-8, -1e-8
PositionTicks == { 0, 1, 10, 100, 0 - 100 }
\* offsets of quaternion and scale components, in ticks: 0, 1e-10, -1e-8
OffsetTicks == { 0, 1, 0 - 100 }

FormatPositions == { << Ticks(x), Ticks(y), Zero >> : x, y \in PositionTicks }
FormatQuaternions ==
    { << Ticks(x), Zero, Zero, NumAdd(One, Ticks(w)) >> : x, w \in OffsetTicks }
FormatScales ==
    { << NumAdd(One, Ticks(x)), One, NumAdd(One, Ticks(z)) >> : x, z \in OffsetTicks }

InitFormat ==
    /\ settings = DefaultSettings
    /\ objects = << CrateObject >>
    /\ mats = [A |-> MaterialA(GraphTextured, << >>, "ok"), B |-> MaterialB]
    /\ InitWorld

\* make_collection_text_grouped_embedded(collection_name, ["crate"],
\* {"crate": [inst]}); last.arg is the instance, last.ret the text
FormatCollection(pos, quat, scale) ==
    /\ last.op = "init"
    /\ last' = [NoOp EXCEPT
                  !.op = "format",
                  !.arg = [id |-> Crate \o << "_" >> \o Format03d(1),
                           prototype |-> GoPath(settings, Crate),
                           pos |-> pos, quat |-> quat, scale |-> scale],
                  !.ret = make_collection_text_grouped_embedded(settings.collection_name,
                              << Crate >>,
                              (Crate :> << [id |-> Crate \o << "_" >> \o Format03d(1),
                                            prototype |-> GoPath(settings, Crate),
                                            pos |-> pos, quat |-> quat,
                                            scale |-> scale] >>))]
    /\ UNCHANGED << settings, objects, mats, fs, dirs, selected, active, engine, passes,
                    images, edits >>

NextFormat ==
    \E pos \in FormatPositions, quat \in FormatQuaternions, scale \in FormatScales :
        FormatCollection(pos, quat, scale)

SpecFormat == InitFormat /\ [][NextFormat]_vars

(***************************************************************************)
(* SpecTransform: to_defold_trs applied to an object whose world matrix is *)
(* a translation times a rotation (identity or a half turn about X, Y or   *)
(* Z) times a scale (1 or 2 along each axis).                              *)
(***************************************************************************)
\* translation components, in ticks
TranslationTicks == { 0, 30000, 0 - 50000 }

\* the diagonals of the rotations: identity, half turns about X, Y and Z
HalfTurns ==
    { << 1, 1, 1 >>, << 1, 0 - 1, 0 - 1 >>, << 0 - 1, 1, 0 - 1 >>, << 0 - 1, 0 - 1, 1 >> }

\* the matrix  translation(t) @ rotation(r) @ scale(s)
WorldMatrix(t, r, s) ==
    << << Whole(r[1] * s[1]), Zero, Zero, Ticks(t[1]) >>,
       << Zero, Whole(r[2] * s[2]), Zero, Ticks(t[2]) >>,
       << Zero, Zero, Whole(r[3] * s[3]), Ticks(t[3]) >>,
       << Zero, Zero, Zero, One >> >>

InitTransform ==
    /\ settings = DefaultSettings
    /\ \E t \in [1..3 -> TranslationTicks], r \in HalfTurns, s \in [1..3 -> 1..2] :
          objects = << [CrateObject EXCEPT !.matrix_world = WorldMatrix(t, r, s)] >>
    /\ mats = [A |-> MaterialA(GraphTextured, << >>, "ok"), B |-> MaterialB]
    /\ InitWorld

\* to_defold_trs(obj); last.ret is [pos, quat, scale]
Transform(o) ==
    /\ last.op = "init"
    /\ last' = [NoOp EXCEPT !.op = "trs", !.arg = o, !.ret = to_defold_trs(objects[o])]
    /\ UNCHANGED << settings, objects, mats, fs, dirs, selected, active, engine, passes,
                    images, edits >>

NextTransform == \E o \in DOMAIN objects : Transform(o)

SpecTransform == InitTransform /\ [][NextTransform]_vars

(***************************************************************************)
(* SpecWalk: find_basecolor_image_from_material called on material A, over *)
(* every node graph of MaxGraphNodes nodes: a Principled node and Mix and  *)
(* Image Texture nodes (with and without an image), each input socket      *)
(* unlinked or fed by any node of the graph, itself included, so that the  *)
(* graphs hold cycles, self-loops and unreachable nodes.                   *)
(***************************************************************************)
\* number of nodes of the graphs walked
MaxGraphNodes == 3

WalkNodeKinds == { << "MIX", NoImage >>, << "TEX_IMAGE", "wood" >>, << "TEX_IMAGE", NoImage >> }

\* node 1 is the Principled node, the others are of the given kinds
WalkNodes(kinds) ==
    [ i \in 1..MaxGraphNodes |->
        IF i = 1 THEN Node(1, "BSDF_PRINCIPLED", NoImage)
        ELSE Node(i, kinds[i][1], kinds[i][2]) ]

\* the input sockets of the nodes, as <<node, socket>>
WalkSockets(nodes) ==
    UNION { { << i, sock >> : sock \in Range(NodeInputs(nodes[i].type)) } : i \in DOMAIN nodes }

\* feeds[s] is the node linked into socket s, 0 for an unlinked socket
WalkGraph(nodes, feeds) ==
    [nodes |-> nodes,
     links |-> { Link(feeds[sk], ColorOutput(nodes[feeds[sk]].type), sk[1], sk[2]) :
                 sk \in { q \in DOMAIN feeds : feeds[q] # 0 } }]

InitWalk ==
    /\ settings = DefaultSettings
    /\ objects = << BareObject >>
    /\ \E kinds \in [2..MaxGraphNodes -> WalkNodeKinds] :
          \E feeds \in [WalkSockets(WalkNodes(kinds)) -> 0..MaxGraphNodes] :
             mats = [A |-> MaterialA(WalkGraph(WalkNodes(kinds), feeds), << >>, "ok"),
                     B |-> MaterialB]
    /\ InitWorld

\* find_basecolor_image_from_material(A); last.ret is the image found and the
\* nodes the walk expanded
FindImage(m) ==
    /\ last.op = "init"
    /\ Commit(World, "find", m, basecolor_image_walk(mats[m]), "")
    /\ UNCHANGED << settings, objects, edits >>

NextWalk == FindImage("A")

SpecWalk == InitWalk /\ [][NextWalk]_vars

(***************************************************************************)
(* SpecNames: the prototype exporter and the scene compiler on two meshes  *)
(* whose materials A and B are both flagged for baking, over prototype ids *)
(* and material names that differ but may read alike once sanitized and    *)
(* joined: object 1 (prototype "a") holds A and B, object 2 (prototype     *)
(* "b" or "a__b") holds one of them.  The two materials never have the     *)
(* same name, as in the host.                                              *)
(***************************************************************************)
NamesOfA == { << "M", "y", " ", "A" >>, << "b", "_", "_", "c" >>, << "x" >> }
NamesOfB == { << "M", "y", "_", "A" >>, << "c" >>, << "y" >> }
SecondProtos == { << "b" >>, << "a", "_", "_", "b" >> }

InitNames ==
    /\ settings = DefaultSettings
    /\ \E p \in SecondProtos, m \in { "A", "B" } :
          objects = << MeshObject(("defold_prototype" :> << "a" >>), << >>, << "A", "B" >>,
                                  TRUE, 8, TRUE, << 0, 0, 0 >>),
                       MeshObject(("defold_prototype" :> p), << >>, << m >>,
                                  TRUE, 8, TRUE, << 0, 0, 0 >>) >>
    /\ \E a \in NamesOfA, b \in NamesOfB :
          mats = [A |-> Material(a, GraphConstant, ("bake_color_texture" :> TRUE), "ok"),
                  B |-> Material(b, GraphTextured, ("bake_color_texture" :> TRUE), "ok")]
    /\ InitWorld

NextNames ==
    \/ \E o \in 1..2 : ExportSingle(o, "none")
    \/ RunExportScene(0, "none")

SpecNames == InitNames /\ [][NextNames]_vars

(***************************************************************************)
(* Properties.                                                             *)
(***************************************************************************)
\* the indices of the objects the scene compiler groups
EligibleObjects == { i \in DOMAIN objects : Eligible(settings, objects[i]) }

\* the prototype ids an export step works on: that of object arg for the
\* prototype exporter (op "single"), those of every group for the scene compiler
ExportedProtos(op, arg) ==
    IF op = "single" THEN { ProtoOf(objects[arg]) }
    ELSE { ProtoOf(objects[i]) : i \in EligibleObjects }

\* C1: an exporter run (export_single_prototype_assets or run_export_scene)
\* leaves every existing prototype-definition (.go) file in place with the
\* content it had before the run, writing such a file only when it was absent;
\* a successful run writes the .model file of each prototype it exports.
C1_GoCreatedOnce ==
    [][ last'.op \in { "single", "scene" } =>
          /\ \A p \in GoPaths :
                p \in DOMAIN fs' /\ fs'[p] = fs[p] /\ p \notin last'.written
          /\ last'.ret = "ok" =>
                \A proto \in ExportedProtos(last'.op, last'.arg) :
                    /\ ModelPath(settings, proto) \in last'.written
                    /\ ModelPath(settings, proto) \in DOMAIN fs'
                    /\ GoPath(settings, proto) \in DOMAIN fs' ]_vars

\* a successful run on a prototype whose .go file holds a manual edit: the
\* file is kept, the .model file is written again
C1_Witness ==
    /\ last.op = "single" /\ last.ret = "ok"
    /\ \E p \in GoPaths :
          /\ p = GoPath(settings, ProtoOf(objects[last.arg]))
          /\ \E i \in DOMAIN fs[p].components : fs[p].components[i].id = "script"
          /\ p \notin last.written
    /\ ModelPath(settings, ProtoOf(objects[last.arg])) \in last.written

GeneratedComponents(p) ==
    { fs[p].components[i].component :
        i \in { j \in DOMAIN fs[p].components : fs[p].components[j].id \in { "model", "collision" } } }

\* C3: after a successful export_single_prototype_assets run, every component
\* path (model, collision body) listed in an existing .go file names a file
\* that exists.
C3_GoComponentsExist ==
    (last.op = "single" /\ last.ret = "ok") =>
        \A p \in GoPaths : \A c \in GeneratedComponents(p) : c \in DOMAIN fs

SceneFile == FilePath(settings.scenes_dir, settings.collection_name \o << ".collection" >>)

SceneWritten == last.op = "scene" /\ last.ret = "ok"

\* C4: in the scene file a successful run_export_scene wrote, the ids of the
\* instance blocks are pairwise distinct.
C4_InstanceIdsDistinct ==
    SceneWritten =>
        \A i, j \in DOMAIN fs[SceneFile].instances :
            i # j => fs[SceneFile].instances[i].id # fs[SceneFile].instances[j].id

\* a scene file with three instances of two prototypes, of which "crate_001"
C4_Witness ==
    /\ SceneWritten
    /\ Len(fs[SceneFile].instances) = 3
    /\ Crate \o << "_", "0", "0", "1" >> \in { ProtoOf(objects[i]) : i \in EligibleObjects }
    /\ Crate \in { ProtoOf(objects[i]) : i \in EligibleObjects }

\* the grouped objects of prototype p, in scene order
MembersInOrder(p) ==
    SelectSeq([ i \in 1..Len(objects) |-> i ],
              LAMBDA i : i \in EligibleObjects /\ ProtoOf(objects[i]) = p)

\* the position field of the instance block of an object
PositionText(obj) ==
    InstanceBlock([id |-> << >>, prototype |-> << >>, pos |-> to_defold_trs(obj).pos,
                   quat |-> to_defold_trs(obj).quat, scale |-> to_defold_trs(obj).scale]).position

\* C5: in the scene file a successful run_export_scene wrote, the k-th object
\* (in scene order) of the group of prototype p is the instance p_00k, for
\* every prototype p, and there is no other instance.
C5_InstanceIdsCounted ==
    SceneWritten =>
        /\ Len(fs[SceneFile].instances) = Cardinality(EligibleObjects)
        /\ \A o \in EligibleObjects :
              \A k \in DOMAIN MembersInOrder(ProtoOf(objects[o])) :
                  \E i \in DOMAIN fs[SceneFile].instances :
                      /\ fs[SceneFile].instances[i].id =
                            ProtoOf(objects[o]) \o << "_", "0", "0", DigitChars[k + 1] >>
                      /\ fs[SceneFile].instances[i].position =
                            PositionText(objects[MembersInOrder(ProtoOf(objects[o]))[k]])
                      /\ fs[SceneFile].instances[i].prototype =
                            GoPath(settings, ProtoOf(objects[o]))

\* three crates and crate_003 among the instances
C5_Witness ==
    /\ SceneWritten
    /\ Len(MembersInOrder(Crate)) = 3
    /\ objects[1] # objects[2]
    /\ \E i \in DOMAIN fs[SceneFile].instances :
          fs[SceneFile].instances[i].id = Crate \o << "_", "0", "0", "3" >>

\* the objects export_single_prototype_assets was called on, in call order
ExportCalls ==
    LET calls == SelectSeq(last.trace, LAMBDA e : e[1] = "export_single")
    IN  [ i \in DOMAIN calls |-> calls[i][2] ]

FirstOfGroup(o) ==
    /\ o \in EligibleObjects
    /\ \A j \in EligibleObjects : ProtoOf(objects[j]) = ProtoOf(objects[o]) => o <= j

\* C6: within one run_export_scene or export_all_prototypes_assets_no_scene,
\* export_single_prototype_assets is called on first objects of groups only,
\* at most once per prototype id, and - the run succeeding - once for each.
C6_OneExportPerPrototype ==
    last.op \in { "scene", "all" } =>
        /\ \A i \in DOMAIN ExportCalls : FirstOfGroup(ExportCalls[i])
        /\ \A i, j \in DOMAIN ExportCalls : i # j => ExportCalls[i] # ExportCalls[j]
        /\ last.ret = "ok" =>
              \A o \in EligibleObjects :
                  \E i \in DOMAIN ExportCalls :
                      ProtoOf(objects[ExportCalls[i]]) = ProtoOf(objects[o])

\* a successful run on two groups of three objects, the second object being
\* the second member of the first group
C6_Witness ==
    /\ last.op \in { "scene", "all" } /\ last.ret = "ok"
    /\ Len(ExportCalls) = 2
    /\ Cardinality(EligibleObjects) = 3
    /\ ProtoOf(objects[1]) = ProtoOf(objects[2])
    /\ objects[1] # objects[2]

\* the links into the Surface input of the Material Output nodes of a tree
SurfaceLinks(nt) ==
    { l \in nt.links : l.ts = "Surface" /\ NodeById(nt, l.tn).type = "OUTPUT_MATERIAL" }

BakeReturns == last'.op = "bake" /\ last'.ret \in { "True", "False" }

\* C7: when bake_color_emit_png returns, the Surface links of material A are
\* the original ones, its node tree holds no node it did not hold before, and
\* the render engine and the bake-pass flags have their values of before.
C7_BakeRestores ==
    [][ BakeReturns =>
          /\ SurfaceLinks(mats'["A"].node_tree[1]) = SurfaceLinks(mats["A"].node_tree[1])
          /\ NodeIds(mats'["A"].node_tree[1]) \subseteq NodeIds(mats["A"].node_tree[1])
          /\ engine' = engine
          /\ passes' = passes ]_vars

\* C8: a call of bake_color_emit_png that does not succeed returns False, and
\* leaves the materials (node graphs), the render engine, the bake-pass flags,
\* the selection and the active object as they were.
C8_BakeFailureClean ==
    [][ (last'.op = "bake" /\ last'.ret # "True") =>
          /\ last'.ret = "False"
          /\ mats' = mats
          /\ engine' = engine
          /\ passes' = passes
          /\ selected' = selected
          /\ active' = active ]_vars

\* what the bake of material m returned during the last export
BakeReturned(m, ret) ==
    \E i \in DOMAIN last.trace :
        /\ last.trace[i][1] = "bake_returned"
        /\ last.trace[i][2] = m
        /\ last.trace[i][3] = ret

\* the texture reference the resolver produced for material m during the last export
ResolvedTexture(m) ==
    last.trace[CHOOSE i \in DOMAIN last.trace :
                   last.trace[i][1] = "resolve" /\ last.trace[i][2] = m][3]

\* the texture reference of the block of material m in the .model file of object 1
ModelTexture(m) ==
    LET blocks == fs[ModelPath(settings, ProtoOf(objects[1]))].materials
    IN  blocks[CHOOSE i \in DOMAIN blocks : blocks[i].name = mats[m].name].texture

\* /<textures_dir>/<proto>__<sanitized material name>_albedo.png for the crate
BakedTextureOf ==
    [A |-> << "/", "assets/textures", "/", "c", "r", "a", "t", "e", "_", "_",
              "M", "y", "_", "A", "_albedo.png" >>,
     B |-> << "/", "assets/textures", "/", "c", "r", "a", "t", "e", "_", "_",
              "B", "_albedo.png" >>]

\* C9: a bake that returns False does not abort the export, and the block of
\* its material in the .model file carries the resolver's texture reference;
\* after a bake that returns True the block carries the baked file's path.
C9_BakeFallback ==
    last.op = "single" =>
        \A m \in { "A", "B" } :
            /\ BakeReturned(m, "False") =>
                  /\ last.error # "bake"
                  /\ last.ret = "ok" => ModelTexture(m) = ResolvedTexture(m)
            /\ (BakeReturned(m, "True") /\ last.ret = "ok") =>
                  ModelTexture(m) = BakedTextureOf[m]

\* one export in which the bake of A returned False and that of B True
C9_Witness ==
    /\ last.op = "single" /\ last.ret = "ok"
    /\ BakeReturned("A", "False")
    /\ BakeReturned("B", "True")
    /\ ModelTexture("A") # DEFAULT_DEFOLD_TEXTURE

BadRoot == settings.project_root = "" \/ settings.project_root # ProjectDir

InvalidTarget(o) ==
    \/ o = 0
    \/ objects[o].type # "MESH"
    \/ ("defold_prototype" \notin DOMAIN objects[o].props
        /\ "defold_prototype" \notin DOMAIN objects[o].data_props)

\* C10: export_single_prototype_assets called with a bad project root, on
\* something that is not a MESH or on an object without defold_prototype
\* raises and leaves the files and directories untouched; so does
\* run_export_scene called with a bad project root.
C10_ValidationBeforeWrites ==
    [][ (\/ last'.op = "single" /\ (BadRoot \/ InvalidTarget(last'.arg))
         \/ last'.op = "scene" /\ BadRoot)
          => (last'.ret = "raised" /\ last'.written = {} /\ fs' = fs /\ dirs' = dirs) ]_vars

\* the export of an object without prototype id, refused in a project that
\* already holds exported files
C10_Witness ==
    /\ last.op = "single" /\ last.ret = "raised"
    /\ last.error = "Active object has no 'defold_prototype' custom property."
    /\ fs # << >>

\* the regenerated outputs of the prototype of the last export
LastProto == ProtoOf(objects[last.arg])

SingleExported == last.op = "single" /\ last.ret = "ok"

C12_BakedTexturesRegenerated ==
    SingleExported =>
        \A m \in DOMAIN mats :
            BakedPath(settings, LastProto, mats[m].name) \in DOMAIN fs
                => BakedPath(settings, LastProto, mats[m].name) \in last.written

\* the project before any export, the host as it is now
EmptyProject == [World EXCEPT !.fs = << >>, !.dirs = {}]

StepIndices(trace, name) == { i \in DOMAIN trace : trace[i][1] = name }

\* C14: when export_single_prototype_assets raises (writing the .model file
\* fails) inside run_export_scene or export_all_prototypes_assets_no_scene,
\* the batch raises that error, the call that raised is the last call of the
\* batch (every earlier call wrote its .model file, no call follows), and the
\* scene file is neither deleted nor written.
C14_BatchAborts ==
    [][ (last'.op \in { "scene", "all" } /\ last'.ret = "raised" /\ last'.error = "model")
          => /\ Cardinality(StepIndices(last'.trace, "export_single"))
                   = Cardinality(StepIndices(last'.trace, "write_model")) + 1
             /\ \A i \in StepIndices(last'.trace, "write_model") :
                   \E j \in StepIndices(last'.trace, "export_single") : i < j
             /\ StepIndices(last'.trace, "write_collection") = {}
             /\ SceneFile \notin last'.written
             /\ (SceneFile \in DOMAIN fs') = (SceneFile \in DOMAIN fs)
             /\ SceneFile \in DOMAIN fs => fs'[SceneFile] = fs[SceneFile] ]_vars

\* a scene run on two prototypes whose first export raised: one call only,
\* the scene file of the earlier export still in place
C14_Witness ==
    /\ last.op = "scene" /\ last.ret = "raised" /\ last.error = "model"
    /\ Len(ExportCalls) = 1
    /\ Cardinality({ ProtoOf(objects[i]) : i \in EligibleObjects }) = 2
    /\ SceneFile \in DOMAIN fs
    /\ fs[SceneFile].instances = << >>

RECURSIVE FirstOccurrences(_, _)
\* the distinct materials of the slots, each at its first occurrence
FirstOccurrences(slots, i) ==
    IF i > Len(slots) THEN << >>
    ELSE (IF slots[i] # "none" /\ \A j \in 1..(i - 1) : slots[j] # slots[i]
          THEN << slots[i] >> ELSE << >>) \o FirstOccurrences(slots, i + 1)

\* the names of the material blocks of the .model file of the last export
ModelBlockNames ==
    [ i \in DOMAIN fs[ModelPath(settings, LastProto)].materials |->
        fs[ModelPath(settings, LastProto)].materials[i].name ]

\* C15: the .model file written by export_single_prototype_assets holds one
\* material block per distinct material of the mesh's slots, in the order of
\* first occurrence, and the single block "default" for a mesh without
\* materials.
C15_OneBlockPerMaterial ==
    SingleExported =>
        ModelBlockNames =
            IF FirstOccurrences(objects[last.arg].slots, 1) = << >> THEN << << "default" >> >>
            ELSE [ i \in DOMAIN FirstOccurrences(objects[last.arg].slots, 1) |->
                     mats[FirstOccurrences(objects[last.arg].slots, 1)[i]].name ]

\* the crate, slots [A, B, A]: the blocks of A and B, in that order
C15_Witness ==
    /\ SingleExported
    /\ objects[last.arg].slots = << "A", "B", "A" >>
    /\ ModelBlockNames = << mats["A"].name, mats["B"].name >>

\* the defold_texture of a property bag, stripped; empty when absent
TextureOverride(props) ==
    IF "defold_texture" \in DOMAIN props THEN Strip(props["defold_texture"]) ELSE << >>

\* the Base Color image of material m: an image of Images, or "none"
DiscoveredImage(m) ==
    IF m = "none" \/ IsNone(find_basecolor_image_from_material(mats[m])) THEN "none"
    ELSE find_basecolor_image_from_material(mats[m])[1]

\* the basename under which an image is exported to the textures directory
ExportedName(img) ==
    IF ~IsNone(Images[img].filepath) /\ Images[img].isfile THEN Images[img].filepath[1]
    ELSE sanitize_id(Images[img].name) \o << ".png" >>

\* the texture reference by the priority list, for material m and object 1
ExpectedTexture(m) ==
    IF m # "none" /\ TextureOverride(mats[m].props) # << >>
    THEN TextureOverride(mats[m].props)
    ELSE IF TextureOverride(objects[1].props) # << >>
    THEN TextureOverride(objects[1].props)
    ELSE IF DiscoveredImage(m) # "none" /\ settings.export_textures
            /\ Images[DiscoveredImage(m)].saves
    THEN << "/", settings.textures_dir, "/" >> \o ExportedName(DiscoveredImage(m))
    ELSE IF DiscoveredImage(m) # "none" /\ ~settings.export_textures
            /\ ~IsNone(Images[DiscoveredImage(m)].filepath)
    THEN << "/", settings.textures_dir, "/" >> \o Images[DiscoveredImage(m)].filepath[1]
    ELSE DEFAULT_DEFOLD_TEXTURE

AsciiIdChars == AsciiAlnum \cup { "_", "-" }

\* C17: sanitize_id returns a non-empty string of the characters A-Z, a-z,
\* 0-9, '_' and '-' only, "My_Box" for "My Box!!" and "prototype" for "".
C17_SanitizeAscii ==
    last.op = "sanitize" =>
        /\ last.ret # << >>
        /\ \A i \in DOMAIN last.ret : last.ret[i] \in AsciiIdChars
        /\ last.arg = MyBox => last.ret = << "M", "y", "_", "B", "o", "x" >>
        /\ last.arg = << >> => last.ret = << "p", "r", "o", "t", "o", "t", "y", "p", "e" >>

\* the prototype ids of the grouped objects
SceneProtos == { ProtoOf(objects[i]) : i \in EligibleObjects }

\* the embedded nodes of the scene file after the first: the group nodes
GroupNodes == 2..Len(fs[SceneFile].embedded)

\* the ids of the instance blocks that reference the .go file of prototype p
InstanceIdsOf(p) ==
    { fs[SceneFile].instances[i].id :
        i \in { j \in DOMAIN fs[SceneFile].instances :
                  fs[SceneFile].instances[j].prototype
                      = << "/", settings.prefabs_dir, "/" >> \o p \o << ".go" >> } }

\* C18: in the scene file written by run_export_scene the first embedded node
\* is "root" and its children are exactly the distinct prototype ids; there is
\* one further embedded node per prototype, whose children are exactly the ids
\* of the instance blocks that reference /<prefabs_dir>/<prototype id>.go;
\* every instance block is a child of exactly one of these nodes.
C18_SceneHierarchy ==
    SceneWritten =>
        /\ fs[SceneFile].embedded[1].id = << "r", "o", "o", "t" >>
        /\ Range(fs[SceneFile].embedded[1].children) = SceneProtos
        /\ Len(fs[SceneFile].embedded[1].children) = Cardinality(SceneProtos)
        /\ Len(fs[SceneFile].embedded) = 1 + Cardinality(SceneProtos)
        /\ \A p \in SceneProtos : \E k \in GroupNodes : fs[SceneFile].embedded[k].id = p
        /\ \A k \in GroupNodes :
              /\ Range(fs[SceneFile].embedded[k].children)
                    = InstanceIdsOf(fs[SceneFile].embedded[k].id)
              /\ Len(fs[SceneFile].embedded[k].children)
                    = Cardinality(InstanceIdsOf(fs[SceneFile].embedded[k].id))
        /\ \A i \in DOMAIN fs[SceneFile].instances :
              Cardinality({ k \in GroupNodes :
                              fs[SceneFile].instances[i].id
                                  \in Range(fs[SceneFile].embedded[k].children) }) = 1

\* a scene file of two prototypes, one of them with two instances
C18_Witness ==
    /\ SceneWritten
    /\ Cardinality(SceneProtos) = 2
    /\ \E k \in GroupNodes : Len(fs[SceneFile].embedded[k].children) = 2
    /\ Len(fs[SceneFile].instances) = 3

\* the one instance block of the formatted text
FormattedBlock == last.ret.instances[1]

\* a component given in ticks (its whole part w) lies more than 1e-9 from w
OffBy(a, w) == a[1] # w \/ a[2] > 10 \/ a[2] < 0 - 10

\* C19: make_collection_text_grouped_embedded emits the position sub-block of
\* an instance iff a position component is above 1e-9 in absolute value, the
\* rotation sub-block iff a quaternion component is more than 1e-9 off
\* (0, 0, 0, 1), and the scale sub-block iff a scale component is more than
\* 1e-9 off 1; positions (0,0,0) and (1e-10,0,0) give no position sub-block,
\* (1e-8,0,0) gives one.
C19_ToleranceOmission ==
    last.op = "format" =>
        /\ ~IsNone(FormattedBlock.position) <=> \E i \in 1..3 : OffBy(last.arg.pos[i], 0)
        /\ ~IsNone(FormattedBlock.rotation) <=>
              (\/ \E i \in 1..3 : OffBy(last.arg.quat[i], 0)
               \/ OffBy(last.arg.quat[4], 1))
        /\ ~IsNone(FormattedBlock.scale3) <=> \E i \in 1..3 : OffBy(last.arg.scale[i], 1)
        /\ last.arg.pos \in { << << 0, 0 >>, << 0, 0 >>, << 0, 0 >> >>,
                              << << 0, 1 >>, << 0, 0 >>, << 0, 0 >> >> }
              => IsNone(FormattedBlock.position)
        /\ last.arg.pos = << << 0, 100 >>, << 0, 0 >>, << 0, 0 >> >>
              => ~IsNone(FormattedBlock.position)

\* position (1e-10, 1e-9, 0), quaternion and scale 1e-10 off the identity:
\* an instance block without sub-blocks
C19_Witness ==
    /\ last.op = "format"
    /\ last.arg.pos = << << 0, 1 >>, << 0, 10 >>, << 0, 0 >> >>
    /\ last.arg.quat[1] = << 0, 1 >>
    /\ last.arg.scale[1] = << 1, 1 >>
    /\ IsNone(FormattedBlock.position)
    /\ IsNone(FormattedBlock.rotation)
    /\ IsNone(FormattedBlock.scale3)

\* the world matrix to_defold_trs was applied to
WorldOf(o) == objects[o].matrix_world

\* the linear part of a matrix is the identity
PureTranslation(m) ==
    \A i, j \in 1..3 : m[i][j] = (IF i = j THEN << 1, 0 >> ELSE << 0, 0 >>)

\* the conversion applied to the point (x, y, z), given in ticks
ConvertedPoint(x, y, z) ==
    to_translation(MatMulLeft(AXIS_CONVERT, TranslationMatrix(<< x, y, z >>)))

\* C20: the conversion maps (x, y, z) to (x, z, -y); to_defold_trs of the
\* identity matrix is position (0,0,0), rotation (0,0,0,1), scale (1,1,1); of
\* a pure translation (tx, ty, tz) the position is (tx, tz, -ty); conjugating
\* the converted matrix with the inverse conversion gives the world matrix
\* back.
C20_AxisConversion ==
    last.op = "trs" =>
        /\ ConvertedPoint(1, 2, 3) = << << 0, 1 >>, << 0, 3 >>, << 0, 0 - 2 >> >>
        /\ (PureTranslation(WorldOf(last.arg)) /\ to_translation(WorldOf(last.arg))
                = << << 0, 0 >>, << 0, 0 >>, << 0, 0 >> >>)
              => last.ret = [pos |-> << << 0, 0 >>, << 0, 0 >>, << 0, 0 >> >>,
                             quat |-> << << 0, 0 >>, << 0, 0 >>, << 0, 0 >>, << 1, 0 >> >>,
                             scale |-> << << 1, 0 >>, << 1, 0 >>, << 1, 0 >> >>]
        /\ PureTranslation(WorldOf(last.arg))
              => last.ret.pos = << WorldOf(last.arg)[1][4], WorldOf(last.arg)[3][4],
                                   NumNeg(WorldOf(last.arg)[2][4]) >>
        /\ MatMulRight(MatMulLeft(AxisConvertInverted, ConvertedMatrix(WorldOf(last.arg))),
                       AXIS_CONVERT) = WorldOf(last.arg)

\* a pure translation with three different non-zero components
C20_Witness ==
    /\ last.op = "trs"
    /\ PureTranslation(WorldOf(last.arg))
    /\ to_translation(WorldOf(last.arg)) = << << 0, 30000 >>, << 0, 0 - 50000 >>, << 0, 30000 >> >>
    /\ last.ret.pos = << << 0, 30000 >>, << 0, 30000 >>, << 0, 50000 >> >>

\* the steps of the last operation, by name
TraceNames == [ i \in DOMAIN last.trace |-> last.trace[i][1] ]

\* the last operation was a single export of a mesh with the collision flag
\* set and no vertex, and it got as far as writing the .model file
EmptyHullCase ==
    /\ last.op = "single"
    /\ last.arg # 0
    /\ objects[last.arg].verts = 0
    /\ has_defold_collision(objects[last.arg])
    /\ "write_model" \in Range(TraceNames)

\* C21: export_convex_hull_points on a mesh without vertices returns
\* normally (the export goes on to the collision object, whatever host call
\* was set to fail on the hull file) and neither writes nor leaves a hull
\* file.
C21_EmptyHullSkipped ==
    EmptyHullCase =>
        /\ "write_hull" \in Range(TraceNames)
        /\ last.error # "hull"
        /\ ConvexPath(settings, ProtoOf(objects[last.arg])) \notin last.written
        /\ ConvexPath(settings, ProtoOf(objects[last.arg])) \notin DOMAIN fs

\* the box without vertices exported, the collision object written after the
\* hull step
C21_Witness ==
    /\ EmptyHullCase
    /\ last.ret = "ok"
    /\ "write_hull" \in Range(TraceNames)
    /\ ColobjPath(settings, ProtoOf(objects[last.arg])) \in last.written

\* the collision object file of the prototype of the last single export
WrittenColobj == ColobjPath(settings, ProtoOf(objects[last.arg]))

\* C22: after a successful single export with the collision flag set, the
\* convex-shape file named by the collision object file that the run wrote
\* exists on disk.
C22_ConvexShapeExists ==
    (/\ last.op = "single" /\ last.ret = "ok"
     /\ has_defold_collision(objects[last.arg]))
        => /\ WrittenColobj \in last.written
           /\ fs[WrittenColobj].collision_shape \in DOMAIN fs

\* the materials in the slots of the meshes an operation exports
UsedMaterials(op, arg) ==
    UNION { Range(objects[i].slots) \ { "none" } :
            i \in IF op = "single" THEN { arg } \ { 0 } ELSE EligibleObjects }

\* C23: a run of export_single_prototype_assets or run_export_scene leaves
\* the custom properties of every object, and of every material in the slots
\* of an exported mesh, as they were before the run.
C23_SceneReadOnly ==
    [][ last'.op \in { "single", "scene" }
          => /\ \A i \in DOMAIN objects :
                   /\ objects'[i].props = objects[i].props
                   /\ objects'[i].data_props = objects[i].data_props
             /\ \A m \in UsedMaterials(last'.op, last'.arg) :
                   mats'[m].props = mats[m].props ]_vars

\* the place of a step in the order of export_single_prototype_assets: the
\* entry with its checks and the derived id (1), the directories (2), the
\* deletion of the regenerated outputs (3), the mesh export (4), the
\* materials resolved and baked (5), the .model file (6), the hull (7), the
\* collision object (8), the .go file (9)
StepRank(name) ==
    CASE name = "export_single" -> 1
      [] name = "ensure_dirs"   -> 2
      [] name = "cleanup"       -> 3
      [] name = "export_glb"    -> 4
      [] name \in { "resolve", "bake_emit", "bake_diffuse", "bake_solid", "bake_returned" } -> 5
      [] name = "write_model"   -> 6
      [] name = "write_hull"    -> 7
      [] name = "write_colobj"  -> 8
      [] name = "write_go"      -> 9

\* the step at which a run that raised stopped
FailedRank(error) ==
    CASE error = "glb"    -> 4
      [] error = "bake"   -> 5
      [] error = "model"  -> 6
      [] error = "hull"   -> 7
      [] error = "colobj" -> 8
      [] error = "go"     -> 9
      [] OTHER            -> 2

\* the steps every run takes on its way to the step of rank r
StepsBefore(r, collision) ==
    { k \in 1..(r - 1) : k \in { 1, 2, 3, 4, 5, 6 } \/ (collision /\ k \in { 7, 8 }) }

RanksTaken == { StepRank(TraceNames[i]) : i \in DOMAIN TraceNames }

RECURSIVE Upstream(_, _)
\* the nodes from which a node of S can be reached along the links
Upstream(nt, S) ==
    IF { l.fn : l \in { k \in nt.links : k.tn \in S } } \subseteq S THEN S
    ELSE Upstream(nt, S \cup { l.fn : l \in { k \in nt.links : k.tn \in S } })

\* the nodes that feed the Surface input of a Material Output node
SurfaceSources(nt) == { l.fn : l \in SurfaceLinks(nt) }

\* a colour source can be found: the tree has a Principled node (its Base
\* Color is a constant when unlinked, a socket when linked), or a colour
\* provider lies upstream of what feeds the Surface input
ColorResolvable(nt) ==
    \/ \E i \in DOMAIN nt.nodes : nt.nodes[i].type = "BSDF_PRINCIPLED"
    \/ \E n \in Upstream(nt, SurfaceSources(nt)) : NodeById(nt, n).type \in ColorProviders

\* the call bake_color_emit_png(objects[o], A, ...) gets as far as the render:
\* a mesh with UVs that holds the material, a material with nodes, and a host
\* that lets the object be selected and the temporary nodes be made
ReachesRender(arg) ==
    /\ arg[1] # 0 /\ arg[2] = "A"
    /\ objects[arg[1]].type = "MESH" /\ objects[arg[1]].has_uv
    /\ "A" \in Range(objects[arg[1]].slots)
    /\ mats["A"].use_nodes
    /\ arg[3] \notin { "select", "nodes_new" }

\* the render steps of a trace
RenderSteps(trace) == { i \in DOMAIN trace : trace[i][1] \in { "bake_emit", "bake_diffuse" } }

BaseColorSources(nt) ==
    { l.fn : l \in { k \in nt.links : k.ts = "Base Color"
                                      /\ NodeById(nt, k.tn).type = "BSDF_PRINCIPLED" } }

\* the image nodes with an image among the nodes upstream of the Base Color
ReachableImages(nt) ==
    { n \in Upstream(nt, BaseColorSources(nt)) :
        NodeById(nt, n).type = "TEX_IMAGE" /\ NodeById(nt, n).image # NoImage }

\* C26: the walk ends on every graph, cyclic or not, having expanded no node
\* twice and only nodes upstream of the Base Color input; it returns an image
\* exactly when an image node with an image lies upstream of that input, the
\* image of such a node; it returns none, without expanding a node, when the
\* Base Color input is unlinked.
C26_ImageWalk ==
    last.op = "find" =>
        /\ \A i, j \in DOMAIN last.ret.expanded :
              i # j => last.ret.expanded[i] # last.ret.expanded[j]
        /\ Len(last.ret.expanded) <= Len(mats["A"].node_tree[1].nodes)
        /\ Range(last.ret.expanded)
              \subseteq Upstream(mats["A"].node_tree[1], BaseColorSources(mats["A"].node_tree[1]))
        /\ IsNone(last.ret.image) = (ReachableImages(mats["A"].node_tree[1]) = {})
        /\ ~IsNone(last.ret.image)
              => \E n \in ReachableImages(mats["A"].node_tree[1]) :
                     NodeById(mats["A"].node_tree[1], n).image = last.ret.image[1]
        /\ BaseColorSources(mats["A"].node_tree[1]) = {}
              => IsNone(last.ret.image) /\ last.ret.expanded = << >>

\* a Mix node fed by itself and by an image node: the image is found behind
\* the cycle, each of the two nodes expanded once
C26_Witness ==
    /\ last.op = "find"
    /\ last.ret = [image |-> Some("wood"), expanded |-> << 2, 3 >>]
    /\ Link(2, "Out", 2, "A") \in mats["A"].node_tree[1].links

\* the ids of the scene file: "root", the group nodes, the instance blocks
SceneIds ==
    [ k \in DOMAIN fs[SceneFile].embedded |-> fs[SceneFile].embedded[k].id ]
    \o [ i \in DOMAIN fs[SceneFile].instances |-> fs[SceneFile].instances[i].id ]

\* C27: in the scene file written by run_export_scene the ids of the "root"
\* node, the group nodes and the instance blocks are pairwise distinct.
C27_SceneIdsDistinct ==
    SceneWritten => \A i, j \in DOMAIN SceneIds : i # j => SceneIds[i] # SceneIds[j]

\* a texture reference names a baked texture file
IsBakedTexture(t) == t[Len(t)] = "_albedo.png"

\* the material blocks of the .model files on disk that reference a baked
\* texture, as <<model file, block>>: one per (prototype, baked material)
BakedBlocks ==
    UNION { { << q, i >> : i \in { j \in DOMAIN fs[q].materials :
                                     IsBakedTexture(fs[q].materials[j].texture) } } :
            q \in { f \in DOMAIN fs : fs[f].kind = "model" } }

\* C28: after an export, two different (prototype, baked material) pairs
\* reference different baked texture files in the .model files on disk.
C28_BakedPathsDistinct ==
    (last.op \in { "single", "scene" } /\ last.ret = "ok")
        => \A r1, r2 \in BakedBlocks :
              r1 # r2 => fs[r1[1]].materials[r1[2]].texture
                            # fs[r2[1]].materials[r2[2]].texture
====
